---- MODULE Spec2Model ----
(***************************************************************************)
(* A model of the MCP tool-orchestration subsystem of agentic-ai-app:      *)
(*   - the tool iteration loop of POST /api/instruct-agent (route.ts),     *)
(*   - the MCPClient session object (lib/mcp/client.ts),                   *)
(*   - the JSON-RPC response codec (sendMCPRequest / parseSSEResponse).    *)
(* Strings are sequences of one-character strings; a fixed literal of the  *)
(* source is kept as one element.                                          *)
(***************************************************************************)
EXTENDS Integers, Sequences, FiniteSets, TLC

VARIABLES
    \* ---- one request of POST /api/instruct-agent (route.ts) ----
    pc,                   \* position of the handler's start(controller) callback
    hasToken,             \* process.env.GITHUB_TOKEN is set
    messages,             \* the request body's history
    conversationMessages, \* route.ts:244
    toolIterations,       \* route.ts:248
    assistantContent,     \* route.ts:270
    toolCalls,            \* route.ts:271
    currentToolCall,      \* route.ts:276
    toolIdx,              \* position of `for (const toolCall of toolCalls)`
    events,               \* what controller.enqueue has put on the output stream
    cancelled,            \* the caller has cancelled the ReadableStream
    requestCount,         \* history: number of chat-completion requests issued
    lastSent,             \* history: the message list the latest request carried
    inFlight,             \* the tool call whose callTool is pending
    nextCallId,           \* the stub model's next fresh call id
    deviations,           \* how many non-default choices the environment has made
    lastReturned,         \* history: how the latest callTool ended, and with what
    arrivedDeltas,        \* history: the tool-call deltas of this round, in arrival order
    \* ---- one MCPClient object and its callers (lib/mcp/client.ts) ----
    initialized,          \* client.ts:137
    tools,                \* client.ts:136
    requestIdCounter,     \* client.ts:25, one per request sent to the server
    pending,              \* per caller: the async method it is awaiting
    lastEvent,            \* history: the latest call, return or failure of a method
    opCount,              \* history: number of steps taken on the client
    lastGot,              \* history: what the latest getTools() returned
    gotFresh,             \* history: no listTools/initialize/disconnect step since
    \* ---- one JSON-RPC response through the codec (lib/mcp/client.ts) ----
    response,             \* the response object the server answers with
    body,                 \* the lines of the text/event-stream body carrying it
    jsonOutcome,          \* sendMCPRequest's outcome when it arrives as application/json
    sseOutcome,           \* ... and when it arrives as text/event-stream
    \* ---- one tool name through the namespacing functions (lib/mcp/client.ts) ----
    namePc,               \* "idle", "named" (function name built), "parsed"
    namedServer,          \* the serverId given to mcpToolToOpenAIFunction
    namedTool,            \* the tool.name given to it
    advertisedName,       \* the function.name it returned
    parsedName,           \* what parseOpenAIFunctionName made of that name
    \* ---- tool discovery of one request (route.ts:13-87) ----
    discoveryPc,          \* "discovering", or "streaming" once the stream is handed out
    enabledServerIds,     \* route.ts:73
    serverIdx,            \* position of `for (const serverId of enabledServerIds)`
    mcpClientCache,       \* route.ts:13: server id -> tools of its cached client
    mcpTools,             \* route.ts:69: the function names advertised to the model
    mcpServerMap,         \* route.ts:70: server id -> tools, for this request
    discovered,           \* history: per enabled position, how its client was obtained
    \* ---- concurrent requests enabling one server id (route.ts:13-37) ----
    handlerPc,            \* per request: "start", "initializing", "listing", "done"
    clients,              \* the MCPClient objects: initialized, tools (client.ts:136-137)
    cacheEntry,           \* route.ts:13: the client mcpClientCache holds for the id
    sawCached,            \* history: per request, the entry its cache lookup found
    obtainedClient,       \* per request: the client getOrCreateMCPClient returned
    advertisedTools,      \* per request: what getTools() of that client returned
    sentRequests,         \* history: per request, the methods it sent to the server
    cacheWrites,          \* history: the clients put in the cache, in order
    \* ---- the chat page's tool-call status list (page.tsx handleSubmit) ----
    pagePc,               \* "idle", "fetching" (awaiting fetch) or "reading" (awaiting reader.read)
    activeToolCalls,      \* page.tsx:73
    latestStatus,         \* history: per (serverId, toolName), this request's latest event
    receivedCount,        \* history: events this request has read from the stream
    submitCount,          \* history: requests submitted
    \* ---- one call of callArxivTool (lib/mcp/types.ts) ----
    arxivPc,              \* "start", "searching", "metadata", "content" (the awaits) or "done"
    arxivToolName,        \* the toolName argument
    arxivArgs,            \* the args argument: query, url, includeContent
    arxivOutcome,         \* "pending", "returned" or "threw": how the returned promise settled
    arxivResult,          \* the MCPToolCallResult it resolved with
    arxivTrace,           \* history: how the fetches of this call ended
    \* ---- POST /api/mcp/connect (app/api/mcp/connect/route.ts) ----
    connectPc,            \* "idle", "handling" or "initializing" (awaiting client.initialize)
    connectServerId,      \* the serverId of the request body
    connectResponse,      \* the JSON response: status, connected, tools
    clientCache,          \* connect/route.ts:13: server id -> tools of its cached client
    clientTouched,        \* history: this request constructed a client or wrote the cache
    connectCount,         \* history: connect requests received
    \* ---- the sidebar's server state and the chat page's submit (SidebarContext.tsx) ----
    mcpServers,           \* SidebarContext.tsx:33: per server isConnected, isConnecting, tools
    sidebarEnabled,       \* SidebarContext.tsx:43: the set enabledServerIds
    connectionAttempts,   \* SidebarContext.tsx:166: connectionAttemptsRef.current
    connecting,           \* the servers whose fetch of /api/mcp/connect is pending
    effectPending,        \* the state changed since the auto-connect effect last ran
    toggleCount,          \* history: toggles made by the user
    lastSubmit            \* history: the ids the latest submit sent, and the state it saw

loopVars == <<pc, hasToken, messages, lastReturned, arrivedDeltas, conversationMessages,
              toolIterations, assistantContent, toolCalls, currentToolCall, toolIdx,
              events, cancelled, requestCount, lastSent, inFlight, nextCallId, deviations>>

clientVars == <<initialized, tools, requestIdCounter, pending, lastEvent, opCount,
                lastGot, gotFresh>>

codecVars == <<response, body, jsonOutcome, sseOutcome>>

nameVars == <<namePc, namedServer, namedTool, advertisedName, parsedName>>

discoveryVars == <<discoveryPc, enabledServerIds, serverIdx, mcpClientCache, mcpTools,
                   mcpServerMap, discovered>>

raceVars == <<handlerPc, clients, cacheEntry, sawCached, obtainedClient, advertisedTools,
              sentRequests, cacheWrites>>

statusVars == <<pagePc, activeToolCalls, latestStatus, receivedCount, submitCount>>

arxivVars == <<arxivPc, arxivToolName, arxivArgs, arxivOutcome, arxivResult, arxivTrace>>

connectVars == <<connectPc, connectServerId, connectResponse, clientCache, clientTouched,
                 connectCount>>

sidebarVars == <<mcpServers, sidebarEnabled, connectionAttempts, connecting, effectPending,
                 toggleCount, lastSubmit>>

vars == <<loopVars, clientVars, codecVars, nameVars, discoveryVars, raceVars, statusVars,
          arxivVars, connectVars, sidebarVars>>

\* What a step of one component leaves alone.
LoopFrame == UNCHANGED <<clientVars, codecVars, nameVars, discoveryVars, raceVars,
                         statusVars, arxivVars, connectVars, sidebarVars>>
ClientFrame == UNCHANGED <<loopVars, codecVars, nameVars, discoveryVars, raceVars,
                           statusVars, arxivVars, connectVars, sidebarVars>>
CodecFrame == UNCHANGED <<loopVars, clientVars, nameVars, discoveryVars, raceVars,
                          statusVars, arxivVars, connectVars, sidebarVars>>
NameFrame == UNCHANGED <<loopVars, clientVars, codecVars, discoveryVars, raceVars,
                         statusVars, arxivVars, connectVars, sidebarVars>>
DiscoveryFrame == UNCHANGED <<loopVars, clientVars, codecVars, nameVars, raceVars,
                              statusVars, arxivVars, connectVars, sidebarVars>>
RaceFrame == UNCHANGED <<loopVars, clientVars, codecVars, nameVars, discoveryVars,
                         statusVars, arxivVars, connectVars, sidebarVars>>
StatusFrame == UNCHANGED <<loopVars, clientVars, codecVars, nameVars, discoveryVars,
                           raceVars, arxivVars, connectVars, sidebarVars>>
ArxivFrame == UNCHANGED <<loopVars, clientVars, codecVars, nameVars, discoveryVars,
                          raceVars, statusVars, connectVars, sidebarVars>>
ConnectFrame == UNCHANGED <<loopVars, clientVars, codecVars, nameVars, discoveryVars,
                            raceVars, statusVars, arxivVars, sidebarVars>>
SidebarFrame == UNCHANGED <<loopVars, clientVars, codecVars, nameVars, discoveryVars,
                            raceVars, statusVars, arxivVars, connectVars>>

-----------------------------------------------------------------------------
(* Bounds of the model *)

\* Total number of non-default choices the environment (the stub model, the
\* MCP server, the caller) makes during one request.
MaxDeviations == 1

(* Program constants *)

MAX_TOOL_ITERATIONS == 10

-----------------------------------------------------------------------------
(* Strings *)

EmptyStr == <<>>

\* The servers resolved for this request (keys of mcpServerMap).
ResolvedServers == {<<"a">>}

ValidName     == <<"a", "_", "_", "t">>
UnknownName   == <<"b", "_", "_", "t">>
MalformedName == <<"t">>
PartialName   == <<"a", "_">>

OpeningNames == {ValidName, UnknownName, MalformedName, PartialName}
NameFragments == {<<"_", "t">>}

ValidArgs == <<"{", "k", "}">>
OpeningArgs == {EmptyStr, ValidArgs, <<"{", "k">>}
ArgFragments == {<<"}">>}

\* The id-carrying deltas the stub model may send: the well-formed one, and
\* those that differ from it in the name or in the argument string.
OpeningDeltas ==
    {d \in OpeningNames \X OpeningArgs : d[1] = ValidName \/ d[2] = ValidArgs}

\* JSON.parse of an argument string: the object it denotes, or a SyntaxError.
JsonParse(s) ==
    IF s = <<"{", "k", "}">> THEN [ok |-> TRUE, obj |-> {"k"}]
    ELSE IF s = <<"{", "}">> THEN [ok |-> TRUE, obj |-> {}]
    ELSE [ok |-> FALSE, obj |-> {}]

\* Mutant: a string that does not parse is passed on as the argument.
ParseArgsKeepingText(arguments) ==
    IF arguments = EmptyStr THEN {}
    ELSE IF JsonParse(arguments).ok THEN JsonParse(arguments).obj
    ELSE {arguments}

\* route.ts:377-384: args stays {} when the string is empty or does not parse.
ParseArgs(arguments) ==
    IF arguments = EmptyStr THEN {}
    ELSE IF JsonParse(arguments).ok THEN JsonParse(arguments).obj
    ELSE {}

TextDeltas == {<<"h", "i">>}

\* JS String.prototype.split('__'): leftmost, non-overlapping separators.
RECURSIVE SplitSep(_)
SplitSep(s) ==
    LET hits == {i \in 1..(Len(s) - 1) : s[i] = "_" /\ s[i + 1] = "_"}
    IN  IF hits = {} THEN <<s>>
        ELSE LET i == CHOOSE k \in hits : \A j \in hits : k <= j
             IN  <<SubSeq(s, 1, i - 1)>> \o SplitSep(SubSeq(s, i + 2, Len(s)))

\* JS Array.prototype.join('__')
RECURSIVE JoinSep(_)
JoinSep(parts) ==
    IF Len(parts) = 0 THEN EmptyStr
    ELSE IF Len(parts) = 1 THEN parts[1]
    ELSE parts[1] \o <<"_", "_">> \o JoinSep(Tail(parts))

NoParse == [ok |-> FALSE, serverId |-> EmptyStr, toolName |-> EmptyStr]

\* Mutant: the tool name is taken to be the second segment alone.
parseSecondSegment(functionName) ==
    LET parts == SplitSep(functionName)
    IN  IF Len(parts) < 2 THEN NoParse
        ELSE [ok |-> TRUE, serverId |-> parts[1], toolName |-> parts[2]]

\* client.ts:403-415
parseOpenAIFunctionName(functionName) ==
    LET parts == SplitSep(functionName)
    IN  IF Len(parts) < 2 THEN NoParse
        ELSE [ok |-> TRUE, serverId |-> parts[1], toolName |-> JoinSep(Tail(parts))]

\* client.ts:376-398: the function tool advertised for a server's tool; of
\* the tool only its name is kept.
mcpToolToOpenAIFunction(serverId, toolName) ==
    [type |-> "function", name |-> serverId \o <<"_", "_">> \o toolName]

-----------------------------------------------------------------------------
(* Tool results *)

TextPart(t) == [type |-> "text", text |-> t, resourceText |-> EmptyStr]
ResourcePart(t) == [type |-> "resource", text |-> EmptyStr, resourceText |-> t]
ImagePart == [type |-> "image", text |-> EmptyStr, resourceText |-> EmptyStr]

\* What serverInfo.client.callTool can resolve to. isNull: the JSON-RPC result
\* is null/undefined, so reading result.content throws a TypeError.
ResultOK      == [isNull |-> FALSE, content |-> <<TextPart(<<"4", "2">>)>>, isError |-> FALSE]
ResultEmpty   == [isNull |-> FALSE, content |-> <<>>, isError |-> FALSE]
ResultIsError == [isNull |-> FALSE, content |-> <<TextPart(<<"n", "o">>)>>, isError |-> TRUE]
ResultNull    == [isNull |-> TRUE, content |-> <<>>, isError |-> FALSE]

ToolResults == {ResultOK, ResultEmpty, ResultIsError, ResultNull}

RECURSIVE JoinBlank(_)
JoinBlank(texts) ==
    IF Len(texts) = 0 THEN EmptyStr
    ELSE IF Len(texts) = 1 THEN texts[1]
    ELSE texts[1] \o <<"\n", "\n">> \o JoinBlank(Tail(texts))

RECURSIVE FilterNonEmpty(_)
FilterNonEmpty(texts) ==
    IF Len(texts) = 0 THEN <<>>
    ELSE IF Head(texts) = EmptyStr THEN FilterNonEmpty(Tail(texts))
    ELSE <<Head(texts)>> \o FilterNonEmpty(Tail(texts))

\* Mutant: the empty texts are joined too (no filter(Boolean)).
mcpResultToTextUnfiltered(result) ==
    IF Len(result.content) = 0 THEN EmptyStr
    ELSE JoinBlank(
            [i \in 1..Len(result.content) |->
                IF result.content[i].type = "text" /\ result.content[i].text # EmptyStr
                THEN result.content[i].text
                ELSE IF result.content[i].type = "resource"
                THEN result.content[i].resourceText
                ELSE EmptyStr])

\* client.ts:354-371.
\* Defined for results that are not null; a null result throws instead.
mcpResultToText(result) ==
    IF Len(result.content) = 0 THEN EmptyStr
    ELSE JoinBlank(FilterNonEmpty(
            [i \in 1..Len(result.content) |->
                IF result.content[i].type = "text" /\ result.content[i].text # EmptyStr
                THEN result.content[i].text
                ELSE IF result.content[i].type = "resource"
                THEN result.content[i].resourceText
                ELSE EmptyStr]))

Preview(text) == SubSeq(text, 1, IF Len(text) < 100 THEN Len(text) ELSE 100)

-----------------------------------------------------------------------------
(* Messages and events *)

Msg(role, content) ==
    [role |-> role, content |-> content, tool_calls |-> <<>>, tool_call_id |-> 0]

\* Mutant: the assistant message is appended without its tool-call list.
AssistantMsgWithoutCalls(content, calls) ==
    [role |-> "assistant", content |-> content, tool_calls |-> <<>>, tool_call_id |-> 0]

AssistantMsg(content, calls) ==
    [role |-> "assistant", content |-> content, tool_calls |-> calls, tool_call_id |-> 0]

ToolMsg(id, content) ==
    [role |-> "tool", content |-> content, tool_calls |-> <<>>, tool_call_id |-> id]

TextEvent(content) ==
    [type |-> "text", status |-> "", serverId |-> EmptyStr, toolName |-> EmptyStr,
     text |-> content, call |-> 0]

\* `call` is history: the id of the tool call the event was emitted for.
ToolCallEvent(serverId, toolName, status, text, id) ==
    [type |-> "tool_call", status |-> status, serverId |-> serverId,
     toolName |-> toolName, text |-> text, call |-> id]

WarningEvent ==
    [type |-> "warning", status |-> "", serverId |-> EmptyStr, toolName |-> EmptyStr,
     text |-> <<"max tool iterations">>, call |-> 0]

ErrorEvent(message) ==
    [type |-> "error", status |-> "", serverId |-> EmptyStr, toolName |-> EmptyStr,
     text |-> message, call |-> 0]

NoToolCall == [id |-> 0, name |-> EmptyStr, arguments |-> EmptyStr]

SystemPrompt == <<"S">>
UserPrompt == <<"Q">>

Histories ==
    { <<Msg("system", <<"old">>), Msg("user", <<"q">>), Msg("assistant", <<"r">>)>> }

RECURSIVE DropSystem(_)
DropSystem(ms) ==
    IF Len(ms) = 0 THEN <<>>
    ELSE IF Head(ms).role = "system" THEN DropSystem(Tail(ms))
    ELSE <<Msg(Head(ms).role, Head(ms).content)>> \o DropSystem(Tail(ms))

\* Mutant: the history is passed on unfiltered.
formattedMessagesUnfiltered(history) ==
    <<Msg("system", SystemPrompt)>> \o history \o <<Msg("user", UserPrompt)>>

\* route.ts:196-209
formattedMessages(history) ==
    <<Msg("system", SystemPrompt)>> \o DropSystem(history) \o <<Msg("user", UserPrompt)>>

NullContent == <<"null">>
OrNull(s) == IF s = EmptyStr THEN NullContent ELSE s

\* How a callTool ended: it resolved with `result`, or it rejected.
CallReturned(id, result) == [id |-> id, threw |-> FALSE, result |-> result]
CallThrew(id) == [id |-> id, threw |-> TRUE, result |-> ResultNull]
NothingReturned == [id |-> 0, threw |-> FALSE, result |-> ResultNull]

NoDispatch == [id |-> 0, serverId |-> EmptyStr, toolName |-> EmptyStr, args |-> {}]

-----------------------------------------------------------------------------
(* The request handler: start(controller) of the ReadableStream, route.ts:115-469 *)

LoopInit ==
    /\ pc = "start"
    /\ hasToken \in BOOLEAN
    /\ messages \in Histories
    /\ conversationMessages = <<>>
    /\ toolIterations = 0
    /\ assistantContent = EmptyStr
    /\ toolCalls = <<>>
    /\ currentToolCall = NoToolCall
    /\ toolIdx = 0
    /\ events = <<>>
    /\ cancelled = FALSE
    /\ requestCount = 0
    /\ lastSent = <<>>
    /\ inFlight = NoDispatch
    /\ nextCallId = 1
    /\ deviations = 0
    /\ lastReturned = NothingReturned
    /\ arrivedDeltas = <<>>

\* The pending awaits of the handler: the only points where the caller's
\* cancel can be observed to happen.
Suspended == pc \in {"requesting", "stream", "calling"}

Terminated == pc \in {"closed", "error", "broken"}

\* Mutant: the outer catch closes the stream without reporting the error.
FatalUnreported(message) ==
    IF cancelled
    THEN /\ pc' = "broken"
         /\ events' = events
    ELSE /\ pc' = "error"
         /\ events' = events

\* route.ts:463-468, the outer catch. After a cancel the stream is no longer
\* readable, so controller.enqueue throws again and start() rejects.
Fatal(message) ==
    IF cancelled
    THEN /\ pc' = "broken"
         /\ events' = events
    ELSE /\ pc' = "error"
         /\ events' = Append(events, ErrorEvent(message))

\* route.ts:444: the condition under which the warning is emitted.
WarnOnExit(iterations) == iterations >= MAX_TOOL_ITERATIONS

\* route.ts:444-462: after the while loop.
Finish ==
    IF cancelled
    THEN /\ pc' = "broken"
         /\ events' = events
    ELSE /\ pc' = "closed"
         /\ events' = IF WarnOnExit(toolIterations)
                      THEN Append(events, WarningEvent)
                      ELSE events

\* route.ts:119-244: token check and message assembly.
Begin ==
    /\ pc = "start"
    /\ IF ~hasToken
       THEN /\ Fatal(<<"Missing GITHUB_TOKEN environment variable.">>)
            /\ UNCHANGED conversationMessages
       ELSE /\ conversationMessages' = formattedMessages(messages)
            /\ pc' = "loop"
            /\ UNCHANGED events
    /\ UNCHANGED <<hasToken, messages, lastReturned, arrivedDeltas, toolIterations,
                   assistantContent, toolCalls, currentToolCall, toolIdx, cancelled,
                   requestCount, lastSent, inFlight, nextCallId, deviations>>
    /\ LoopFrame

\* Mutant: an off-by-one while condition.
ContinueLoopInclusive(iterations) == iterations <= MAX_TOOL_ITERATIONS

\* route.ts:251: the while condition.
ContinueLoop(iterations) == iterations < MAX_TOOL_ITERATIONS

\* route.ts:251-267: the while condition and the issue of this round's request.
LoopHead ==
    /\ pc = "loop"
    /\ IF ContinueLoop(toolIterations)
       THEN /\ toolIterations' = toolIterations + 1
            /\ requestCount' = requestCount + 1
            /\ lastSent' = conversationMessages
            /\ pc' = "requesting"
            /\ UNCHANGED events
       ELSE /\ Finish
            /\ UNCHANGED <<toolIterations, requestCount, lastSent>>
    /\ UNCHANGED <<hasToken, messages, lastReturned, arrivedDeltas, conversationMessages,
                   assistantContent, toolCalls, currentToolCall, toolIdx, cancelled,
                   inFlight, nextCallId, deviations>>
    /\ LoopFrame

\* route.ts:267-276: create() resolves with the stream.
CreateReturns ==
    /\ pc = "requesting"
    /\ pc' = "stream"
    /\ assistantContent' = EmptyStr
    /\ toolCalls' = <<>>
    /\ currentToolCall' = NoToolCall
    /\ arrivedDeltas' = <<>>
    /\ UNCHANGED <<hasToken, messages, lastReturned, conversationMessages, toolIterations,
                   toolIdx, events, cancelled, requestCount, lastSent, inFlight,
                   nextCallId, deviations>>
    /\ LoopFrame

\* route.ts:267: create() rejects.
CreateThrows ==
    /\ pc = "requesting"
    /\ Fatal(<<"request failed">>)
    /\ UNCHANGED <<hasToken, messages, lastReturned, arrivedDeltas, conversationMessages,
                   toolIterations, assistantContent, toolCalls, currentToolCall, toolIdx,
                   cancelled, requestCount, lastSent, inFlight, nextCallId, deviations>>
    /\ LoopFrame


\* Mutant: the text delta is accumulated but not forwarded.
TextDeltaUnforwarded(content) ==
    /\ pc = "stream"
    /\ deviations < MaxDeviations
    /\ deviations' = deviations + 1
    /\ IF cancelled
       THEN /\ Fatal(<<"enqueue failed">>)
            /\ UNCHANGED assistantContent
       ELSE /\ assistantContent' = assistantContent \o content
            /\ events' = events
            /\ UNCHANGED pc
    /\ UNCHANGED <<hasToken, messages, lastReturned, arrivedDeltas, conversationMessages,
                   toolIterations, toolCalls, currentToolCall, toolIdx, cancelled,
                   requestCount, lastSent, inFlight, nextCallId>>
    /\ LoopFrame

\* route.ts:284-292: a chunk carrying text.
TextDelta(content) ==
    /\ pc = "stream"
    /\ deviations < MaxDeviations
    /\ deviations' = deviations + 1
    /\ IF cancelled
       THEN /\ Fatal(<<"enqueue failed">>)
            /\ UNCHANGED assistantContent
       ELSE /\ assistantContent' = assistantContent \o content
            /\ events' = Append(events, TextEvent(content))
            /\ UNCHANGED pc
    /\ UNCHANGED <<hasToken, messages, lastReturned, arrivedDeltas, conversationMessages,
                   toolIterations, toolCalls, currentToolCall, toolIdx, cancelled,
                   requestCount, lastSent, inFlight, nextCallId>>
    /\ LoopFrame

\* route.ts:296-298: one element of choice.delta.tool_calls; id 0 stands
\* for a delta without an id.
Delta(id, name, arguments) == [id |-> id, name |-> name, arguments |-> arguments]

\* The stub model's default round opens exactly one well-formed call.
DefaultOpen(name, arguments) ==
    /\ name = ValidName
    /\ arguments = ValidArgs
    /\ currentToolCall = NoToolCall
    /\ toolCalls = <<>>

\* Mutant: the flushed call is put in front of the list (unshift).
FlushCallInFront(calls, call) == <<call>> \o calls

\* route.ts:301, 330: toolCalls.push(currentToolCall).
FlushCall(calls, call) == Append(calls, call)

\* route.ts:298-310: a tool-call delta that carries a call id.
ToolDeltaOpen(name, arguments) ==
    /\ pc = "stream"
    /\ IF DefaultOpen(name, arguments)
       THEN UNCHANGED deviations
       ELSE /\ deviations < MaxDeviations
            /\ deviations' = deviations + 1
    /\ toolCalls' = IF currentToolCall # NoToolCall
                    THEN FlushCall(toolCalls, currentToolCall)
                    ELSE toolCalls
    /\ currentToolCall' = [id |-> nextCallId, name |-> name, arguments |-> arguments]
    /\ nextCallId' = nextCallId + 1
    /\ arrivedDeltas' = Append(arrivedDeltas, Delta(nextCallId, name, arguments))
    /\ UNCHANGED <<pc, hasToken, messages, lastReturned, conversationMessages, toolIterations,
                   assistantContent, toolIdx, events, cancelled, requestCount,
                   lastSent, inFlight>>
    /\ LoopFrame

\* Mutant: the fragments are put in front of the buffers.
ToolDeltaContPrepending(nameFragment, argFragment) ==
    /\ pc = "stream"
    /\ deviations < MaxDeviations
    /\ deviations' = deviations + 1
    /\ currentToolCall' =
          IF currentToolCall # NoToolCall
          THEN [currentToolCall EXCEPT !.name = nameFragment \o @,
                                       !.arguments = argFragment \o @]
          ELSE currentToolCall
    /\ arrivedDeltas' = Append(arrivedDeltas, Delta(0, nameFragment, argFragment))
    /\ UNCHANGED <<pc, hasToken, messages, lastReturned, conversationMessages, toolIterations,
                   assistantContent, toolCalls, toolIdx, events, cancelled,
                   requestCount, lastSent, inFlight, nextCallId>>
    /\ LoopFrame

\* route.ts:311-319: a tool-call delta without a call id.
ToolDeltaCont(nameFragment, argFragment) ==
    /\ pc = "stream"
    /\ deviations < MaxDeviations
    /\ deviations' = deviations + 1
    /\ currentToolCall' =
          IF currentToolCall # NoToolCall
          THEN [currentToolCall EXCEPT !.name = @ \o nameFragment,
                                       !.arguments = @ \o argFragment]
          ELSE currentToolCall
    /\ arrivedDeltas' = Append(arrivedDeltas, Delta(0, nameFragment, argFragment))
    /\ UNCHANGED <<pc, hasToken, messages, lastReturned, conversationMessages, toolIterations,
                   assistantContent, toolCalls, toolIdx, events, cancelled,
                   requestCount, lastSent, inFlight, nextCallId>>
    /\ LoopFrame

\* route.ts:278: reading the stream rejects.
StreamThrows ==
    /\ pc = "stream"
    /\ Fatal(<<"stream failed">>)
    /\ UNCHANGED <<hasToken, messages, lastReturned, arrivedDeltas, conversationMessages,
                   toolIterations, assistantContent, toolCalls, currentToolCall, toolIdx,
                   cancelled, requestCount, lastSent, inFlight, nextCallId, deviations>>
    /\ LoopFrame

\* route.ts:328-345: the stream ends; flush, then break or append the
\* assistant message and enter the for loop.
StreamEnd ==
    /\ pc = "stream"
    /\ LET calls == IF currentToolCall # NoToolCall
                    THEN FlushCall(toolCalls, currentToolCall)
                    ELSE toolCalls
       IN  /\ toolCalls' = calls
           /\ IF Len(calls) = 0
              THEN /\ Finish
                   /\ UNCHANGED <<conversationMessages, toolIdx>>
              ELSE /\ conversationMessages' =
                        Append(conversationMessages,
                               AssistantMsg(OrNull(assistantContent), calls))
                   /\ toolIdx' = 1
                   /\ pc' = "tools"
                   /\ UNCHANGED events
    /\ UNCHANGED <<hasToken, messages, lastReturned, arrivedDeltas, toolIterations,
                   assistantContent, currentToolCall, cancelled, requestCount, lastSent,
                   inFlight, nextCallId, deviations>>
    /\ LoopFrame

\* Mutant: the catch appends the error tool message but emits no status event.
CatchToolWithoutEvent(toolCall, message) ==
    IF cancelled
    THEN /\ Fatal(<<"enqueue failed">>)
         /\ UNCHANGED <<conversationMessages, toolIdx>>
    ELSE /\ events' = events
         /\ conversationMessages' =
                Append(conversationMessages,
                       ToolMsg(toolCall.id, <<"Error calling tool: ">> \o message))
         /\ toolIdx' = toolIdx + 1
         /\ pc' = "tools"

\* Mutant: the catch emits the error status event but appends no tool message.
CatchToolWithoutMessage(toolCall, message) ==
    IF cancelled
    THEN /\ Fatal(<<"enqueue failed">>)
         /\ UNCHANGED <<conversationMessages, toolIdx>>
    ELSE /\ events' = Append(events,
                ToolCallEvent(inFlight.serverId, inFlight.toolName, "error",
                              message, toolCall.id))
         /\ conversationMessages' = conversationMessages
         /\ toolIdx' = toolIdx + 1
         /\ pc' = "tools"

\* route.ts:421-440: the catch around one tool call.
CatchTool(toolCall, message) ==
    IF cancelled
    THEN /\ Fatal(<<"enqueue failed">>)
         /\ UNCHANGED <<conversationMessages, toolIdx>>
    ELSE /\ events' = Append(events,
                ToolCallEvent(inFlight.serverId, inFlight.toolName, "error",
                              message, toolCall.id))
         /\ conversationMessages' =
                Append(conversationMessages,
                       ToolMsg(toolCall.id, <<"Error calling tool: ">> \o message))
         /\ toolIdx' = toolIdx + 1
         /\ pc' = "tools"

\* Mutant: the lookup result is not tested.
AnyServerResolved(serverId) == TRUE

\* route.ts:363-365: mcpServerMap.get(serverId) is defined.
ServerResolved(serverId) == serverId \in DOMAIN mcpServerMap

\* route.ts:348-400: one iteration of the for loop, up to the await of callTool.
ToolStep ==
    /\ pc = "tools"
    /\ IF toolIdx > Len(toolCalls)
       THEN /\ pc' = "loop"
            /\ UNCHANGED <<conversationMessages, toolIdx, events, inFlight>>
       ELSE LET toolCall == toolCalls[toolIdx]
                parsed == parseOpenAIFunctionName(toolCall.name)
            IN  IF ~parsed.ok
                THEN /\ conversationMessages' =
                           Append(conversationMessages,
                                  ToolMsg(toolCall.id,
                                          <<"Error: Invalid function name format: ">>
                                             \o toolCall.name))
                     /\ toolIdx' = toolIdx + 1
                     /\ UNCHANGED <<pc, events, inFlight>>
                ELSE IF ~ServerResolved(parsed.serverId)
                THEN /\ conversationMessages' =
                           Append(conversationMessages,
                                  ToolMsg(toolCall.id,
                                          <<"Error: MCP server not found: ">>
                                             \o parsed.serverId))
                     /\ toolIdx' = toolIdx + 1
                     /\ UNCHANGED <<pc, events, inFlight>>
                ELSE IF cancelled
                \* enqueue of `running` throws, and so does the catch's enqueue
                THEN /\ Fatal(<<"enqueue failed">>)
                     /\ UNCHANGED <<conversationMessages, toolIdx, inFlight>>
                ELSE /\ events' = Append(events,
                            ToolCallEvent(parsed.serverId, parsed.toolName, "running",
                                          EmptyStr, toolCall.id))
                     /\ inFlight' = [id |-> toolCall.id, serverId |-> parsed.serverId,
                                     toolName |-> parsed.toolName,
                                     args |-> ParseArgs(toolCall.arguments)]
                     /\ pc' = "calling"
                     /\ UNCHANGED <<conversationMessages, toolIdx>>
    /\ UNCHANGED <<hasToken, messages, lastReturned, arrivedDeltas, toolIterations,
                   assistantContent, toolCalls, currentToolCall, cancelled, requestCount,
                   lastSent, nextCallId, deviations>>
    /\ LoopFrame

\* route.ts:397-419: callTool resolves.
ToolReturns(result) ==
    /\ pc = "calling"
    /\ IF result = ResultOK
       THEN UNCHANGED deviations
       ELSE /\ deviations < MaxDeviations
            /\ deviations' = deviations + 1
    /\ LET toolCall == toolCalls[toolIdx]
       IN  IF result.isNull
           THEN CatchTool(toolCall, <<"TypeError">>)
           ELSE IF cancelled
           THEN CatchTool(toolCall, <<"enqueue failed">>)
           ELSE LET resultText == mcpResultToText(result)
                IN  /\ events' = Append(events,
                           ToolCallEvent(inFlight.serverId, inFlight.toolName,
                                         "completed", Preview(resultText), toolCall.id))
                    /\ conversationMessages' =
                           Append(conversationMessages,
                                  ToolMsg(toolCall.id,
                                          IF resultText = EmptyStr
                                          THEN <<"Tool executed successfully with no output.">>
                                          ELSE resultText))
                    /\ toolIdx' = toolIdx + 1
                    /\ pc' = "tools"
    /\ inFlight' = NoDispatch
    /\ lastReturned' = CallReturned(toolCalls[toolIdx].id, result)
    /\ UNCHANGED <<hasToken, messages, arrivedDeltas, toolIterations, assistantContent,
                   toolCalls, currentToolCall, cancelled, requestCount, lastSent,
                   nextCallId>>
    /\ LoopFrame

\* route.ts:397, 421: callTool rejects.
ToolThrows ==
    /\ pc = "calling"
    /\ deviations < MaxDeviations
    /\ deviations' = deviations + 1
    /\ CatchTool(toolCalls[toolIdx], <<"MCP request failed">>)
    /\ inFlight' = NoDispatch
    /\ lastReturned' = CallThrew(toolCalls[toolIdx].id)
    /\ UNCHANGED <<hasToken, messages, arrivedDeltas, toolIterations, assistantContent,
                   toolCalls, currentToolCall, cancelled, requestCount, lastSent,
                   nextCallId>>
    /\ LoopFrame

\* The caller cancels the output stream while the handler is suspended.
Cancel ==
    /\ Suspended
    /\ ~cancelled
    /\ deviations < MaxDeviations
    /\ deviations' = deviations + 1
    /\ cancelled' = TRUE
    /\ UNCHANGED <<pc, hasToken, messages, lastReturned, arrivedDeltas,
                   conversationMessages, toolIterations, assistantContent, toolCalls,
                   currentToolCall, toolIdx, events, requestCount, lastSent, inFlight,
                   nextCallId>>
    /\ LoopFrame

LoopNext ==
    \/ Begin
    \/ LoopHead
    \/ CreateReturns
    \/ CreateThrows
    \/ \E content \in TextDeltas : TextDelta(content)
    \/ \E d \in OpeningDeltas : ToolDeltaOpen(d[1], d[2])
    \/ \E nameFragment \in NameFragments \cup {EmptyStr},
          argFragment \in ArgFragments \cup {EmptyStr} :
            /\ <<nameFragment, argFragment>> # <<EmptyStr, EmptyStr>>
            /\ ToolDeltaCont(nameFragment, argFragment)
    \/ StreamThrows
    \/ StreamEnd
    \/ ToolStep
    \/ \E result \in ToolResults : ToolReturns(result)
    \/ ToolThrows
    \/ Cancel

\* The steps of a request for which no server was resolved: callTool is never
\* awaited, so it never resolves or rejects.
PlainNext ==
    \/ Begin
    \/ LoopHead
    \/ CreateReturns
    \/ CreateThrows
    \/ \E content \in TextDeltas : TextDelta(content)
    \/ \E d \in OpeningDeltas : ToolDeltaOpen(d[1], d[2])
    \/ \E nameFragment \in NameFragments \cup {EmptyStr},
          argFragment \in ArgFragments \cup {EmptyStr} :
            /\ <<nameFragment, argFragment>> # <<EmptyStr, EmptyStr>>
            /\ ToolDeltaCont(nameFragment, argFragment)
    \/ StreamThrows
    \/ StreamEnd
    \/ ToolStep
    \/ Cancel

\* Bound: the number of messages of the request's history.
MaxHistory == 3

\* lib/types.ts: the roles and some contents a history message can have.
ChatRoles == {"system", "user", "assistant", "developer"}

HistoryMessages == {Msg(role, content) : role \in ChatRoles, content \in {<<"m">>, <<"n">>}}

RichHistories == UNION {[1..n -> HistoryMessages] : n \in 0..MaxHistory}

\* A request with any history, before its message list is assembled.
HistoryInit ==
    /\ pc = "start"
    /\ hasToken = TRUE
    /\ messages \in RichHistories
    /\ conversationMessages = <<>>
    /\ toolIterations = 0
    /\ assistantContent = EmptyStr
    /\ toolCalls = <<>>
    /\ currentToolCall = NoToolCall
    /\ toolIdx = 0
    /\ events = <<>>
    /\ cancelled = FALSE
    /\ requestCount = 0
    /\ lastSent = <<>>
    /\ inFlight = NoDispatch
    /\ nextCallId = 1
    /\ deviations = 0
    /\ lastReturned = NothingReturned
    /\ arrivedDeltas = <<>>

\* The steps up to the issue of the first chat-completion request.
HistoryNext ==
    \/ Begin
    \/ LoopHead

\* Bound: the number of content parts of a tool result.
MaxParts == 3

\* A text longer than half the preview, so that two of them exceed it.
LongText(c) == [i \in 1..60 |-> c]

ContentParts ==
    {TextPart(EmptyStr), TextPart(<<"4", "2">>), TextPart(LongText("x")),
     ResourcePart(EmptyStr), ResourcePart(LongText("y")), ImagePart}

\* The results a tools/call can deliver: any content, flagged isError or not,
\* or no result object at all.
RichResults ==
    {[isNull |-> FALSE, content |-> c, isError |-> e] :
        c \in UNION {[1..n -> ContentParts] : n \in 0..MaxParts}, e \in BOOLEAN}
    \cup {ResultNull}

\* The handler awaiting the callTool of the first round's only tool call:
\* the state after Begin, LoopHead, CreateReturns, one well-formed
\* id-carrying delta, StreamEnd and ToolStep.
AwaitingFirstCall ==
    LET call == [id |-> 1, name |-> ValidName, arguments |-> ValidArgs]
    IN  /\ pc = "calling"
        /\ hasToken = TRUE
        /\ messages \in Histories
        /\ conversationMessages =
              Append(formattedMessages(messages), AssistantMsg(NullContent, <<call>>))
        /\ toolIterations = 1
        /\ assistantContent = EmptyStr
        /\ toolCalls = <<call>>
        /\ currentToolCall = call
        /\ toolIdx = 1
        /\ events = <<ToolCallEvent(<<"a">>, <<"t">>, "running", EmptyStr, 1)>>
        /\ cancelled = FALSE
        /\ requestCount = 1
        /\ lastSent = formattedMessages(messages)
        /\ inFlight = [id |-> 1, serverId |-> <<"a">>, toolName |-> <<"t">>,
                       args |-> {"k"}]
        /\ nextCallId = 2
        /\ deviations = 0
        /\ lastReturned = NothingReturned
        /\ arrivedDeltas = <<Delta(1, ValidName, ValidArgs)>>

\* The ways that callTool can end.
ToolCallNext ==
    \/ \E result \in RichResults : ToolReturns(result)
    \/ ToolThrows

\* The caller has cancelled the output stream while the handler awaited the
\* first round's create(): the state after Begin, LoopHead and the cancel.
\* The stub's non-default choices are counted from the cancel on.
CancelledWhileRequesting ==
    /\ pc = "requesting"
    /\ hasToken = TRUE
    /\ messages \in Histories \cup {<<>>}
    /\ conversationMessages = formattedMessages(messages)
    /\ toolIterations = 1
    /\ assistantContent = EmptyStr
    /\ toolCalls = <<>>
    /\ currentToolCall = NoToolCall
    /\ toolIdx = 0
    /\ events = <<>>
    /\ cancelled = TRUE
    /\ requestCount = 1
    /\ lastSent = formattedMessages(messages)
    /\ inFlight = NoDispatch
    /\ nextCallId = 1
    /\ deviations = 0
    /\ lastReturned = NothingReturned
    /\ arrivedDeltas = <<>>

\* The caller has cancelled while the handler awaited the callTool of the
\* first round's only tool call.
CancelledWhileCalling ==
    LET call == [id |-> 1, name |-> ValidName, arguments |-> ValidArgs]
    IN  /\ pc = "calling"
        /\ hasToken = TRUE
        /\ messages \in Histories \cup {<<>>}
        /\ conversationMessages =
              Append(formattedMessages(messages), AssistantMsg(NullContent, <<call>>))
        /\ toolIterations = 1
        /\ assistantContent = EmptyStr
        /\ toolCalls = <<call>>
        /\ currentToolCall = call
        /\ toolIdx = 1
        /\ events = <<ToolCallEvent(<<"a">>, <<"t">>, "running", EmptyStr, 1)>>
        /\ cancelled = TRUE
        /\ requestCount = 1
        /\ lastSent = formattedMessages(messages)
        /\ inFlight = [id |-> 1, serverId |-> <<"a">>, toolName |-> <<"t">>,
                       args |-> {"k"}]
        /\ nextCallId = 2
        /\ deviations = 0
        /\ lastReturned = NothingReturned
        /\ arrivedDeltas = <<Delta(1, ValidName, ValidArgs)>>

\* The steps of the handler once the stream is cancelled.
CancelledNext ==
    \/ LoopHead
    \/ CreateReturns
    \/ CreateThrows
    \/ \E content \in TextDeltas : TextDelta(content)
    \/ \E d \in OpeningDeltas : ToolDeltaOpen(d[1], d[2])
    \/ \E nameFragment \in NameFragments \cup {EmptyStr},
          argFragment \in ArgFragments \cup {EmptyStr} :
            /\ <<nameFragment, argFragment>> # <<EmptyStr, EmptyStr>>
            /\ ToolDeltaCont(nameFragment, argFragment)
    \/ StreamThrows
    \/ StreamEnd
    \/ ToolStep
    \/ \E result \in ToolResults : ToolReturns(result)
    \/ ToolThrows

\* Bound: the deltas of one round that differ from the stub's default round.
MaxDeltas == 3

\* The handler reading the first round's stream: the state after Begin,
\* LoopHead and CreateReturns. The stub may send MaxDeltas deltas beyond
\* its default round.
ReadingFirstStream ==
    /\ pc = "stream"
    /\ hasToken = TRUE
    /\ messages \in Histories
    /\ conversationMessages = formattedMessages(messages)
    /\ toolIterations = 1
    /\ assistantContent = EmptyStr
    /\ toolCalls = <<>>
    /\ currentToolCall = NoToolCall
    /\ toolIdx = 0
    /\ events = <<>>
    /\ cancelled = FALSE
    /\ requestCount = 1
    /\ lastSent = formattedMessages(messages)
    /\ inFlight = NoDispatch
    /\ nextCallId = 1
    /\ deviations = MaxDeviations - MaxDeltas
    /\ lastReturned = NothingReturned
    /\ arrivedDeltas = <<>>

\* The tool-call deltas of a round and the end of its stream.
DeltaNext ==
    \/ \E d \in OpeningDeltas : ToolDeltaOpen(d[1], d[2])
    \/ \E nameFragment \in NameFragments \cup {EmptyStr},
          argFragment \in ArgFragments \cup {EmptyStr} :
            /\ <<nameFragment, argFragment>> # <<EmptyStr, EmptyStr>>
            /\ ToolDeltaCont(nameFragment, argFragment)
    \/ StreamEnd

\* Argument strings that are not valid JSON.
InvalidArgs == {<<"{", "k">>, <<"{">>, <<"k", "}">>}

\* The handler about to process the first round's only tool call, whose name
\* resolves and whose argument string does not parse: the state after Begin,
\* LoopHead, CreateReturns, one id-carrying delta and StreamEnd.
BeforeFirstCall ==
    \E arguments \in InvalidArgs :
        LET call == [id |-> 1, name |-> ValidName, arguments |-> arguments]
        IN  /\ pc = "tools"
            /\ hasToken = TRUE
            /\ messages \in Histories
            /\ conversationMessages =
                  Append(formattedMessages(messages), AssistantMsg(NullContent, <<call>>))
            /\ toolIterations = 1
            /\ assistantContent = EmptyStr
            /\ toolCalls = <<call>>
            /\ currentToolCall = call
            /\ toolIdx = 1
            /\ events = <<>>
            /\ cancelled = FALSE
            /\ requestCount = 1
            /\ lastSent = formattedMessages(messages)
            /\ inFlight = NoDispatch
            /\ nextCallId = 2
            /\ deviations = 0
            /\ lastReturned = NothingReturned
            /\ arrivedDeltas = <<Delta(1, ValidName, arguments)>>

\* The for loop over the round's calls, and the issue of the next round.
DispatchNext ==
    \/ ToolStep
    \/ \E result \in RichResults : ToolReturns(result)
    \/ ToolThrows
    \/ LoopHead

-----------------------------------------------------------------------------
(* MCPClient, client.ts:134-228, used by the callers that share one object *)

Callers == {"p", "q"}

\* Number of steps (calls, returns, failures) the callers take on the client.
MaxClientSteps == 5

\* The tool lists a server may report (tools are named by one string).
ToolLists == {<<>>, <<"t">>, <<"t", "u">>}

\* What sendMCPRequest('tools/list') resolves to: a result with a tool
\* array, a result without one, or a null/undefined result.
ListResults ==
    {[isNull |-> FALSE, hasTools |-> TRUE, tools |-> l] : l \in ToolLists}
      \cup {[isNull |-> FALSE, hasTools |-> FALSE, tools |-> <<>>],
            [isNull |-> TRUE, hasTools |-> FALSE, tools |-> <<>>]}

Snapshot == [initialized |-> initialized, tools |-> tools]

NotPending ==
    [await |-> "none", method |-> "none",
     before |-> [initialized |-> FALSE, tools |-> <<>>], clean |-> TRUE]

Event(caller, method, outcome, before, clean) ==
    [caller |-> caller, method |-> method, outcome |-> outcome,
     before |-> before, clean |-> clean]

ClientInit ==
    /\ initialized = FALSE
    /\ tools = <<>>
    /\ requestIdCounter = 0
    /\ pending = [c \in Callers |-> NotPending]
    /\ lastEvent = Event("p", "none", "none", [initialized |-> FALSE, tools |-> <<>>], TRUE)
    /\ opCount = 0
    /\ lastGot = <<>>
    /\ gotFresh = FALSE

\* Caller c is not inside an await and may call a method.
Ready(c) == opCount < MaxClientSteps /\ pending[c].await = "none"

\* Caller c's awaited request is answered.
Answered(c, request) == opCount < MaxClientSteps /\ pending[c].await = request

\* The pending methods after a step of caller c that wrote the client's
\* fields: the other callers' methods no longer run undisturbed.
Disturb(c, mine) ==
    [d \in Callers |-> IF d = c THEN mine ELSE [pending[d] EXCEPT !.clean = FALSE]]

\* client.ts:74-106: sendMCPRequest builds the envelope and posts it.
SendRequest == requestIdCounter' = requestIdCounter + 1

\* client.ts:167-182: initialize() posts the `initialize` request.
CallInitialize(c) ==
    /\ Ready(c)
    /\ SendRequest
    /\ pending' = [pending EXCEPT ![c] =
            [await |-> "initialize", method |-> "initialize",
             before |-> Snapshot, clean |-> TRUE]]
    /\ lastEvent' = Event(c, "initialize", "called", Snapshot, TRUE)
    /\ opCount' = opCount + 1
    /\ gotFresh' = FALSE
    /\ UNCHANGED <<initialized, tools, lastGot>>
    /\ ClientFrame

\* client.ts:184-187: the `initialize` request resolved; the flag is set and
\* listTools() posts `tools/list`.
InitializeRequestReturns(c) ==
    /\ Answered(c, "initialize")
    /\ initialized' = TRUE
    /\ SendRequest
    /\ pending' = Disturb(c, [pending[c] EXCEPT !.await = "tools/list"])
    /\ lastEvent' = Event(c, "initialize", "progress", pending[c].before, pending[c].clean)
    /\ opCount' = opCount + 1
    /\ gotFresh' = FALSE
    /\ UNCHANGED <<tools, lastGot>>
    /\ ClientFrame

\* client.ts:168: the `initialize` request rejected; initialize() rejects.
InitializeRequestFails(c) ==
    /\ Answered(c, "initialize")
    /\ pending' = [pending EXCEPT ![c] = NotPending]
    /\ lastEvent' = Event(c, "initialize", "failed", pending[c].before, pending[c].clean)
    /\ opCount' = opCount + 1
    /\ gotFresh' = FALSE
    /\ UNCHANGED <<initialized, tools, requestIdCounter, lastGot>>
    /\ ClientFrame

\* client.ts:195-201: listTools() posts `tools/list`.
CallListTools(c) ==
    /\ Ready(c)
    /\ SendRequest
    /\ pending' = [pending EXCEPT ![c] =
            [await |-> "tools/list", method |-> "listTools",
             before |-> Snapshot, clean |-> TRUE]]
    /\ lastEvent' = Event(c, "listTools", "called", Snapshot, TRUE)
    /\ opCount' = opCount + 1
    /\ gotFresh' = FALSE
    /\ UNCHANGED <<initialized, tools, lastGot>>
    /\ ClientFrame

\* client.ts:203-204 (and 187-189): `tools/list` resolved. A null result makes
\* `result.tools` throw; otherwise the cache is replaced and the method that
\* awaited it (listTools, or initialize around it) returns.
ListRequestReturns(c, result) ==
    /\ Answered(c, "tools/list")
    /\ IF result.isNull
       THEN /\ pending' = [pending EXCEPT ![c] = NotPending]
            /\ lastEvent' = Event(c, pending[c].method, "failed",
                                  pending[c].before, pending[c].clean)
            /\ UNCHANGED tools
       ELSE /\ tools' = IF result.hasTools THEN result.tools ELSE <<>>
            /\ pending' = Disturb(c, NotPending)
            /\ lastEvent' = Event(c, pending[c].method, "ok",
                                  pending[c].before, pending[c].clean)
    /\ opCount' = opCount + 1
    /\ gotFresh' = FALSE
    /\ UNCHANGED <<initialized, requestIdCounter, lastGot>>
    /\ ClientFrame

\* client.ts:196 (and 187): `tools/list` rejected; the awaiting method rejects.
ListRequestFails(c) ==
    /\ Answered(c, "tools/list")
    /\ pending' = [pending EXCEPT ![c] = NotPending]
    /\ lastEvent' = Event(c, pending[c].method, "failed",
                          pending[c].before, pending[c].clean)
    /\ opCount' = opCount + 1
    /\ gotFresh' = FALSE
    /\ UNCHANGED <<initialized, tools, requestIdCounter, lastGot>>
    /\ ClientFrame

\* client.ts:210-216: callTool() posts `tools/call`.
CallCallTool(c) ==
    /\ Ready(c)
    /\ SendRequest
    /\ pending' = [pending EXCEPT ![c] =
            [await |-> "tools/call", method |-> "callTool",
             before |-> Snapshot, clean |-> TRUE]]
    /\ lastEvent' = Event(c, "callTool", "called", Snapshot, TRUE)
    /\ opCount' = opCount + 1
    /\ UNCHANGED <<initialized, tools, lastGot, gotFresh>>
    /\ ClientFrame

\* client.ts:218: `tools/call` resolved (ok) or rejected.
CallRequestAnswered(c, ok) ==
    /\ Answered(c, "tools/call")
    /\ pending' = [pending EXCEPT ![c] = NotPending]
    /\ lastEvent' = Event(c, "callTool", IF ok THEN "ok" ELSE "failed",
                          pending[c].before, pending[c].clean)
    /\ opCount' = opCount + 1
    /\ UNCHANGED <<initialized, tools, requestIdCounter, lastGot, gotFresh>>
    /\ ClientFrame

\* Mutant: getTools() fetches the list itself when the cache is empty.
GetToolsLazy(c) ==
    /\ Ready(c)
    /\ lastGot' = tools
    /\ gotFresh' = TRUE
    /\ lastEvent' = Event(c, "getTools", IF gotFresh THEN "again" ELSE "ok", Snapshot, TRUE)
    /\ opCount' = opCount + 1
    /\ IF tools = <<>>
       THEN /\ SendRequest
            /\ pending' = [pending EXCEPT ![c] =
                    [await |-> "tools/list", method |-> "listTools",
                     before |-> Snapshot, clean |-> TRUE]]
       ELSE UNCHANGED <<requestIdCounter, pending>>
    /\ UNCHANGED <<initialized, tools>>
    /\ ClientFrame

\* client.ts:160-162: getTools() returns the cached array.
GetTools(c) ==
    /\ Ready(c)
    /\ lastGot' = tools
    /\ gotFresh' = TRUE
    /\ lastEvent' = Event(c, "getTools", IF gotFresh THEN "again" ELSE "ok", Snapshot, TRUE)
    /\ opCount' = opCount + 1
    /\ UNCHANGED <<initialized, tools, requestIdCounter, pending>>
    /\ ClientFrame

\* client.ts:153-155: isInitialized() returns the flag.
IsInitialized(c) ==
    /\ Ready(c)
    /\ lastEvent' = Event(c, "isInitialized", IF initialized THEN "true" ELSE "false",
                          Snapshot, TRUE)
    /\ opCount' = opCount + 1
    /\ UNCHANGED <<initialized, tools, requestIdCounter, pending, lastGot, gotFresh>>
    /\ ClientFrame

\* Mutant: disconnect() clears the flag but keeps the cached tools.
DisconnectKeepsTools(c) ==
    /\ Ready(c)
    /\ initialized' = FALSE
    /\ tools' = tools
    /\ pending' = Disturb(c, NotPending)
    /\ lastEvent' = Event(c, "disconnect", "ok", Snapshot, TRUE)
    /\ opCount' = opCount + 1
    /\ gotFresh' = FALSE
    /\ UNCHANGED <<requestIdCounter, lastGot>>
    /\ ClientFrame

\* client.ts:224-227: disconnect() resets the flag and the cache.
Disconnect(c) ==
    /\ Ready(c)
    /\ initialized' = FALSE
    /\ tools' = <<>>
    /\ pending' = Disturb(c, NotPending)
    /\ lastEvent' = Event(c, "disconnect", "ok", Snapshot, TRUE)
    /\ opCount' = opCount + 1
    /\ gotFresh' = FALSE
    /\ UNCHANGED <<requestIdCounter, lastGot>>
    /\ ClientFrame

ClientNext ==
    \E c \in Callers :
        \/ CallInitialize(c)
        \/ InitializeRequestReturns(c)
        \/ InitializeRequestFails(c)
        \/ CallListTools(c)
        \/ \E result \in ListResults : ListRequestReturns(c, result)
        \/ ListRequestFails(c)
        \/ CallCallTool(c)
        \/ \E ok \in BOOLEAN : CallRequestAnswered(c, ok)
        \/ GetTools(c)
        \/ IsInitialized(c)
        \/ Disconnect(c)

-----------------------------------------------------------------------------
(* The response codec: sendMCPRequest client.ts:112-127, parseSSEResponse 37-69 *)

\* JSON values, tagged with their type; Undefined stands for an absent field.
JV(t, v) == [t |-> t, v |-> v]
Undefined == JV("undefined", "")
JNull == JV("null", "")

ResultValues ==
    {JNull, JV("object", "{}"), JV("array", "[]"), JV("object", "{content}"),
     JV("number", "0"), JV("number", "7"), JV("string", ""), JV("string", "x"),
     JV("boolean", "false"), JV("boolean", "true")}

\* An error member: a JSON-RPC error object (v is its message and code), or null.
ErrorValues == {JV("object", "boom -32000"), JNull}

\* JS ToBoolean.
Truthy(x) ==
    ~ \/ x.t \in {"undefined", "null"}
      \/ x = JV("number", "0")
      \/ x = JV("string", "")
      \/ x = JV("boolean", "false")

\* The JSON-RPC response objects: any combination of the two members.
ResponseObjects ==
    [result : ResultValues \cup {Undefined}, error : ErrorValues \cup {Undefined}]

Returned(value) == [failed |-> FALSE, value |-> value, message |-> ""]
Thrown(message) == [failed |-> TRUE, value |-> Undefined, message |-> message]
NotDelivered == [failed |-> FALSE, value |-> Undefined, message |-> "not delivered"]

McpError(error) == Thrown("MCP error: " \o error.v)

\* client.ts:120-126: the application/json branch.
JsonBranch(data) ==
    IF Truthy(data.error) THEN McpError(data.error) ELSE Returned(data.result)

\* A line of an SSE body after text.split('\n'): `data: ` followed by the
\* JSON text of an object, `data: ` followed by other text, or another line.
DataLine(object) == [kind |-> "data", json |-> TRUE, object |-> object]
GarbageLine == [kind |-> "data", json |-> FALSE,
                object |-> [result |-> Undefined, error |-> Undefined]]
OtherLine == [kind |-> "other", json |-> FALSE,
              object |-> [result |-> Undefined, error |-> Undefined]]
\* `data: null`: valid JSON whose value has no members to read.
NullLine == [kind |-> "datanull", json |-> TRUE,
             object |-> [result |-> Undefined, error |-> Undefined]]

\* The body `data: <JSON.stringify(object)>\n\n`, split into lines.
SseBody(object) == <<DataLine(object), OtherLine, OtherLine>>

\* client.ts:43-62: the loop over the lines; acc is the `result` variable,
\* or the error thrown so far.
RECURSIVE ParseLines(_, _)
ParseLines(lines, acc) ==
    IF Len(lines) = 0 \/ acc.failed THEN acc
    ELSE LET line == Head(lines)
         IN  IF line.kind = "datanull"
             THEN Thrown("TypeError: cannot read properties of null")
             ELSE IF line.kind # "data" \/ ~line.json
             THEN ParseLines(Tail(lines), acc)
             ELSE IF line.object.result # Undefined
             THEN ParseLines(Tail(lines), Returned(line.object.result))
             ELSE IF Truthy(line.object.error)
             THEN McpError(line.object.error)
             ELSE ParseLines(Tail(lines), acc)

\* client.ts:37-69: parseSSEResponse; `result` starts as null and a null at
\* the end is the empty-response error.
parseSSEResponse(lines) ==
    LET acc == ParseLines(lines, Returned(JNull))
    IN  IF acc.failed THEN acc
        ELSE IF acc.value = JNull
        THEN Thrown("No valid response data found in SSE stream")
        ELSE acc

CodecInit ==
    /\ response \in ResponseObjects
    /\ body = SseBody(response)
    /\ jsonOutcome = NotDelivered
    /\ sseOutcome = NotDelivered

\* The initial state of the codec's variables in the other specifications.
CodecRest ==
    /\ response = [result |-> Undefined, error |-> Undefined]
    /\ body = <<>>
    /\ jsonOutcome = NotDelivered
    /\ sseOutcome = NotDelivered

\* client.ts:112-126: the response arrives with content-type application/json.
DeliverAsJson ==
    /\ jsonOutcome = NotDelivered
    /\ jsonOutcome' = JsonBranch(response)
    /\ UNCHANGED <<response, body, sseOutcome>>
    /\ CodecFrame

\* client.ts:112-117: the response arrives as a text/event-stream body.
DeliverAsSSE ==
    /\ sseOutcome = NotDelivered
    /\ sseOutcome' = parseSSEResponse(body)
    /\ UNCHANGED <<response, body, jsonOutcome>>
    /\ CodecFrame

CodecNext == DeliverAsJson \/ DeliverAsSSE

\* Bound: the number of lines of an event-stream body.
MaxLines == 2

\* The objects a `data: ` line can carry: a result or none, an error or none.
LineResults == {Undefined, JNull, JV("number", "7"), JV("object", "{}")}
LineErrors == {Undefined, JV("object", "boom -32000"), JV("object", "bang -32601")}
LineObjects == [result : LineResults, error : LineErrors]

Lines == {DataLine(o) : o \in LineObjects} \cup {GarbageLine, OtherLine, NullLine}

Bodies == UNION {[1..n -> Lines] : n \in 0..MaxLines}

\* A text/event-stream response with an arbitrary body reaches sendMCPRequest.
BodyInit ==
    /\ response = [result |-> Undefined, error |-> Undefined]
    /\ body \in Bodies
    /\ jsonOutcome = NotDelivered
    /\ sseOutcome = NotDelivered

BodyNext == DeliverAsSSE

-----------------------------------------------------------------------------
(* Tool-name namespacing: mcpToolToOpenAIFunction and parseOpenAIFunctionName,
   client.ts:376-415, applied one after the other to one server id and tool name *)

\* Bound: the length of a server id and of a tool name.
MaxNameLen == 3

NameChars == {"a", "_"}

NameStrings == UNION {[1..n -> NameChars] : n \in 0..MaxNameLen}

NameInit ==
    /\ namePc = "idle"
    /\ namedServer \in NameStrings
    /\ namedTool \in NameStrings
    /\ advertisedName = EmptyStr
    /\ parsedName = NoParse

\* The initial state of these variables in the other specifications.
NameRest ==
    /\ namePc = "idle"
    /\ namedServer = EmptyStr
    /\ namedTool = EmptyStr
    /\ advertisedName = EmptyStr
    /\ parsedName = NoParse

\* route.ts:81: the tool is advertised under its namespaced name.
AdvertiseTool ==
    /\ namePc = "idle"
    /\ advertisedName' = mcpToolToOpenAIFunction(namedServer, namedTool).name
    /\ namePc' = "named"
    /\ UNCHANGED <<namedServer, namedTool, parsedName>>
    /\ NameFrame

\* route.ts:349: the model calls the tool by that name and the name is parsed.
ParseAdvertisedName ==
    /\ namePc = "named"
    /\ parsedName' = parseOpenAIFunctionName(advertisedName)
    /\ namePc' = "parsed"
    /\ UNCHANGED <<namedServer, namedTool, advertisedName>>
    /\ NameFrame

NameNext == AdvertiseTool \/ ParseAdvertisedName

-----------------------------------------------------------------------------
(* Tool discovery: getOrCreateMCPClient and the loop over the enabled servers,
   route.ts:13-87, up to the creation of the output stream *)

\* Bound: the number of entries of enabledMCPServers.
MaxEnabled == 2

\* lib/mcp/servers.ts: the ids getMCPServerById knows.
Registry == {<<"a">>, <<"b">>}

\* The synthetic id under which /api/mcp/connect offers the arXiv tools.
ArxivId == <<"arxiv">>

\* An id no registry entry has.
UnknownId == <<"x">>

\* lib/mcp/arxiv-client: the names of the arXiv tools.
ARXIV_TOOLS == <<"arxiv_search", "arxiv_fetch">>

ServerIds == Registry \cup {ArxivId, UnknownId}

EnabledLists == UNION {[1..n -> ServerIds] : n \in 0..MaxEnabled}

\* What the cache can hold from earlier requests: initialized clients of
\* registry servers, each with the tool list it fetched.
Caches == UNION {[ids -> ToolLists] : ids \in SUBSET Registry}

\* route.ts:80-82: the function names of one server's tools.
RECURSIVE FunctionNames(_, _)
FunctionNames(serverId, toolList) ==
    IF Len(toolList) = 0 THEN <<>>
    ELSE <<mcpToolToOpenAIFunction(serverId, <<Head(toolList)>>).name>>
             \o FunctionNames(serverId, Tail(toolList))

\* Map.prototype.set
MapSet(map, key, value) ==
    [k \in DOMAIN map \cup {key} |-> IF k = key THEN value ELSE map[k]]

Obtained(serverId, how, toolList) ==
    [serverId |-> serverId, how |-> how, tools |-> toolList]

DiscoveryInit ==
    /\ discoveryPc = "discovering"
    /\ enabledServerIds \in EnabledLists
    /\ serverIdx = 1
    /\ mcpClientCache \in Caches
    /\ mcpTools = <<>>
    /\ mcpServerMap = <<>>
    /\ discovered = <<>>

\* Discovery is over and has resolved the servers of ResolvedServers.
DiscoveryRest ==
    /\ discoveryPc = "streaming"
    /\ enabledServerIds = <<<<"a">>>>
    /\ serverIdx = 2
    /\ mcpClientCache = [id \in ResolvedServers |-> <<"t">>]
    /\ mcpTools = <<ValidName>>
    /\ mcpServerMap = [id \in ResolvedServers |-> <<"t">>]
    /\ discovered = <<Obtained(<<"a">>, "initialized", <<"t">>)>>

\* The request enabled no server.
DiscoveryNone ==
    /\ discoveryPc = "streaming"
    /\ enabledServerIds = <<>>
    /\ serverIdx = 1
    /\ mcpClientCache = <<>>
    /\ mcpTools = <<>>
    /\ mcpServerMap = <<>>
    /\ discovered = <<>>

Discovering ==
    /\ discoveryPc = "discovering"
    /\ serverIdx <= Len(enabledServerIds)

\* route.ts:75-86: the client was obtained; its tools are registered.
RegisterTools(serverId, toolList) ==
    /\ mcpServerMap' = MapSet(mcpServerMap, serverId, toolList)
    /\ mcpTools' = mcpTools \o FunctionNames(serverId, toolList)

\* route.ts:16-20: the cache holds an initialized client.
CacheHit ==
    /\ Discovering
    /\ LET serverId == enabledServerIds[serverIdx]
       IN  /\ serverId \in DOMAIN mcpClientCache
           /\ RegisterTools(serverId, mcpClientCache[serverId])
           /\ discovered' = Append(discovered,
                                   Obtained(serverId, "cached", mcpClientCache[serverId]))
    /\ serverIdx' = serverIdx + 1
    /\ UNCHANGED <<discoveryPc, enabledServerIds, mcpClientCache>>
    /\ DiscoveryFrame

\* route.ts:22-26: getMCPServerById finds no configuration.
RegistryMiss ==
    /\ Discovering
    /\ LET serverId == enabledServerIds[serverIdx]
       IN  /\ serverId \notin DOMAIN mcpClientCache
           /\ serverId \notin Registry
           /\ discovered' = Append(discovered, Obtained(serverId, "unknown", <<>>))
    /\ serverIdx' = serverIdx + 1
    /\ UNCHANGED <<discoveryPc, enabledServerIds, mcpClientCache, mcpTools, mcpServerMap>>
    /\ DiscoveryFrame

\* route.ts:28-32: a new client initializes (initialize and tools/list both
\* answered) and is cached.
InitializeSucceeds(toolList) ==
    /\ Discovering
    /\ LET serverId == enabledServerIds[serverIdx]
       IN  /\ serverId \notin DOMAIN mcpClientCache
           /\ serverId \in Registry
           /\ mcpClientCache' = MapSet(mcpClientCache, serverId, toolList)
           /\ RegisterTools(serverId, toolList)
           /\ discovered' = Append(discovered, Obtained(serverId, "initialized", toolList))
    /\ serverIdx' = serverIdx + 1
    /\ UNCHANGED <<discoveryPc, enabledServerIds>>
    /\ DiscoveryFrame

\* Mutant: the new client is cached before its initialize is awaited.
InitializeFailsAfterCaching ==
    /\ Discovering
    /\ LET serverId == enabledServerIds[serverIdx]
       IN  /\ serverId \notin DOMAIN mcpClientCache
           /\ serverId \in Registry
           /\ mcpClientCache' = MapSet(mcpClientCache, serverId, <<>>)
           /\ discovered' = Append(discovered, Obtained(serverId, "failed", <<>>))
    /\ serverIdx' = serverIdx + 1
    /\ UNCHANGED <<discoveryPc, enabledServerIds, mcpTools, mcpServerMap>>
    /\ DiscoveryFrame

\* route.ts:28-36: client.initialize() rejects; the catch returns null.
InitializeFails ==
    /\ Discovering
    /\ LET serverId == enabledServerIds[serverIdx]
       IN  /\ serverId \notin DOMAIN mcpClientCache
           /\ serverId \in Registry
           /\ discovered' = Append(discovered, Obtained(serverId, "failed", <<>>))
    /\ serverIdx' = serverIdx + 1
    /\ UNCHANGED <<discoveryPc, enabledServerIds, mcpClientCache, mcpTools, mcpServerMap>>
    /\ DiscoveryFrame

\* route.ts:89-128: after the loop the output stream is created and
\* start(controller) begins the chat-completion rounds.
StartStream ==
    /\ discoveryPc = "discovering"
    /\ serverIdx > Len(enabledServerIds)
    /\ discoveryPc' = "streaming"
    /\ UNCHANGED <<enabledServerIds, serverIdx, mcpClientCache, mcpTools, mcpServerMap,
                   discovered>>
    /\ DiscoveryFrame

DiscoveryNext ==
    \/ CacheHit
    \/ RegistryMiss
    \/ \E toolList \in ToolLists : InitializeSucceeds(toolList)
    \/ InitializeFails
    \/ StartStream

-----------------------------------------------------------------------------
(* Concurrent requests through getOrCreateMCPClient (route.ts:13-37) *)

MaxRequests == 3

\* The requests that enable the same server id while their handlers interleave.
Requests == 1..MaxRequests

\* Client objects are named after the request that constructed them; client 0
\* is the one an earlier, finished request may have left in the cache.
ClientIds == 0..MaxRequests

NoEntry == -1

\* client.ts:136-137: the fields of a newly constructed MCPClient.
NewClient == [initialized |-> FALSE, tools |-> <<>>, listed |-> FALSE]

ReadyClient(toolList) == [initialized |-> TRUE, tools |-> toolList, listed |-> TRUE]

\* route.ts:17-18: the cached client, when there is one and it is initialized.
CachedInitialized ==
    /\ cacheEntry # NoEntry
    /\ clients[cacheEntry].initialized

RaceInit ==
    /\ handlerPc = [r \in Requests |-> "start"]
    /\ \/ /\ cacheEntry = NoEntry
          /\ clients = [c \in ClientIds |-> NewClient]
       \/ \E toolList \in ToolLists :
             /\ cacheEntry = 0
             /\ clients = [c \in ClientIds |->
                              IF c = 0 THEN ReadyClient(toolList) ELSE NewClient]
    /\ sawCached = [r \in Requests |-> NoEntry]
    /\ obtainedClient = [r \in Requests |-> NoEntry]
    /\ advertisedTools = [r \in Requests |-> <<>>]
    /\ sentRequests = [r \in Requests |-> <<>>]
    /\ cacheWrites = <<>>

\* No request is in getOrCreateMCPClient.
RaceRest ==
    /\ handlerPc = [r \in Requests |-> "done"]
    /\ cacheEntry = NoEntry
    /\ clients = [c \in ClientIds |-> NewClient]
    /\ sawCached = [r \in Requests |-> NoEntry]
    /\ obtainedClient = [r \in Requests |-> NoEntry]
    /\ advertisedTools = [r \in Requests |-> <<>>]
    /\ sentRequests = [r \in Requests |-> <<>>]
    /\ cacheWrites = <<>>

\* Mutant: the cache is not consulted; every request constructs a client.
GetOrCreateAlwaysNew(r) ==
    /\ handlerPc[r] = "start"
    /\ sawCached' = [sawCached EXCEPT ![r] = cacheEntry]
    /\ clients' = [clients EXCEPT ![r] = NewClient]
    /\ sentRequests' = [sentRequests EXCEPT ![r] = Append(@, "initialize")]
    /\ handlerPc' = [handlerPc EXCEPT ![r] = "initializing"]
    /\ UNCHANGED <<cacheEntry, obtainedClient, advertisedTools, cacheWrites>>
    /\ RaceFrame

\* route.ts:16-30 and 74-78, client.ts:167-180: the cache lookup. A cached
\* initialized client is returned and its getTools() read; otherwise a client
\* is constructed and its initialize request sent.
GetOrCreate(r) ==
    /\ handlerPc[r] = "start"
    /\ sawCached' = [sawCached EXCEPT ![r] = cacheEntry]
    /\ IF CachedInitialized
       THEN /\ obtainedClient' = [obtainedClient EXCEPT ![r] = cacheEntry]
            /\ advertisedTools' = [advertisedTools EXCEPT ![r] = clients[cacheEntry].tools]
            /\ handlerPc' = [handlerPc EXCEPT ![r] = "done"]
            /\ UNCHANGED <<clients, sentRequests>>
       ELSE /\ clients' = [clients EXCEPT ![r] = NewClient]
            /\ sentRequests' = [sentRequests EXCEPT ![r] = Append(@, "initialize")]
            /\ handlerPc' = [handlerPc EXCEPT ![r] = "initializing"]
            /\ UNCHANGED <<obtainedClient, advertisedTools>>
    /\ UNCHANGED <<cacheEntry, cacheWrites>>
    /\ RaceFrame

\* Mutant: the client is put in the cache as soon as initialize is answered.
InitializeAnsweredCaching(r) ==
    /\ handlerPc[r] = "initializing"
    /\ clients' = [clients EXCEPT ![r].initialized = TRUE]
    /\ cacheEntry' = r
    /\ cacheWrites' = Append(cacheWrites, r)
    /\ sentRequests' = [sentRequests EXCEPT ![r] = Append(@, "tools/list")]
    /\ handlerPc' = [handlerPc EXCEPT ![r] = "listing"]
    /\ UNCHANGED <<sawCached, obtainedClient, advertisedTools>>
    /\ RaceFrame

\* client.ts:168-184: the initialize request is answered; the client marks
\* itself initialized and sends tools/list.
InitializeAnswered(r) ==
    /\ handlerPc[r] = "initializing"
    /\ clients' = [clients EXCEPT ![r].initialized = TRUE]
    /\ sentRequests' = [sentRequests EXCEPT ![r] = Append(@, "tools/list")]
    /\ handlerPc' = [handlerPc EXCEPT ![r] = "listing"]
    /\ UNCHANGED <<cacheEntry, sawCached, obtainedClient, advertisedTools, cacheWrites>>
    /\ RaceFrame

\* client.ts:168, route.ts:33-36: the initialize request fails; the catch
\* returns null.
InitializeRejected(r) ==
    /\ handlerPc[r] = "initializing"
    /\ handlerPc' = [handlerPc EXCEPT ![r] = "done"]
    /\ UNCHANGED <<clients, cacheEntry, sawCached, obtainedClient, advertisedTools,
                   sentRequests, cacheWrites>>
    /\ RaceFrame

\* client.ts:193-202, route.ts:30-32 and 74-78: tools/list is answered; the
\* client stores the list, is put in the cache and returned.
ListAnswered(r, toolList) ==
    /\ handlerPc[r] = "listing"
    /\ clients' = [clients EXCEPT ![r].tools = toolList, ![r].listed = TRUE]
    /\ cacheEntry' = r
    /\ cacheWrites' = Append(cacheWrites, r)
    /\ obtainedClient' = [obtainedClient EXCEPT ![r] = r]
    /\ advertisedTools' = [advertisedTools EXCEPT ![r] = toolList]
    /\ handlerPc' = [handlerPc EXCEPT ![r] = "done"]
    /\ UNCHANGED <<sawCached, sentRequests>>
    /\ RaceFrame

\* client.ts:193, route.ts:33-36: tools/list fails; initialize() rejects and
\* the catch returns null.
ListRejected(r) ==
    /\ handlerPc[r] = "listing"
    /\ handlerPc' = [handlerPc EXCEPT ![r] = "done"]
    /\ UNCHANGED <<clients, cacheEntry, sawCached, obtainedClient, advertisedTools,
                   sentRequests, cacheWrites>>
    /\ RaceFrame

RaceNext ==
    \E r \in Requests :
        \/ GetOrCreate(r)
        \/ InitializeAnswered(r)
        \/ InitializeRejected(r)
        \/ \E toolList \in ToolLists : ListAnswered(r, toolList)
        \/ ListRejected(r)

-----------------------------------------------------------------------------
(* The chat page's tool-call status list (page.tsx handleSubmit) *)

MaxStatusEvents == 3

MaxSubmits == 2

StatusServers == {<<"a">>, <<"b">>}

StatusTools == {<<"t">>, <<"u">>}

StatusPairs == StatusServers \X StatusTools

\* route.ts:389-435: the tool_call events a response stream can carry.
StatusEvents ==
    {[serverId |-> sid, toolName |-> tool, status |-> "running", text |-> EmptyStr] :
        sid \in StatusServers, tool \in StatusTools}
    \cup {[serverId |-> sid, toolName |-> tool, status |-> st, text |-> <<"x">>] :
            sid \in StatusServers, tool \in StatusTools, st \in {"completed", "error"}}

NoStatus == [serverId |-> EmptyStr, toolName |-> EmptyStr, status |-> "", text |-> EmptyStr]

\* page.tsx:513-515: Array.prototype.findIndex, 0 where JavaScript gives -1.
FindStatusIndex(prev, serverId, toolName) ==
    LET hits == {i \in 1..Len(prev) :
                    prev[i].serverId = serverId /\ prev[i].toolName = toolName}
    IN  IF hits = {} THEN 0 ELSE CHOOSE i \in hits : \A j \in hits : i <= j

\* Mutant: every event is appended to the list.
AppendStatus(prev, newStatus) == Append(prev, newStatus)

\* page.tsx:511-534: the updater given to setActiveToolCalls.
UpdateStatus(prev, newStatus) ==
    LET existingIndex == FindStatusIndex(prev, newStatus.serverId, newStatus.toolName)
    IN  IF existingIndex > 0
        THEN [prev EXCEPT ![existingIndex] = newStatus]
        ELSE Append(prev, newStatus)

StatusInit ==
    /\ pagePc = "idle"
    /\ activeToolCalls = <<>>
    /\ latestStatus = [pair \in StatusPairs |-> NoStatus]
    /\ receivedCount = 0
    /\ submitCount = 0

StatusRest == StatusInit

\* page.tsx:366-459: handleSubmit up to the fetch; the list is cleared.
Submit ==
    /\ pagePc = "idle"
    /\ submitCount < MaxSubmits
    /\ submitCount' = submitCount + 1
    /\ activeToolCalls' = <<>>
    /\ latestStatus' = [pair \in StatusPairs |-> NoStatus]
    /\ receivedCount' = 0
    /\ pagePc' = "fetching"
    /\ StatusFrame

\* page.tsx:453-475: the response arrives and has a readable body.
FetchResponds ==
    /\ pagePc = "fetching"
    /\ pagePc' = "reading"
    /\ UNCHANGED <<activeToolCalls, latestStatus, receivedCount, submitCount>>
    /\ StatusFrame

\* page.tsx:564-568: the finally block.
LeaveRequest ==
    /\ pagePc' = "idle"
    /\ activeToolCalls' = <<>>
    /\ UNCHANGED <<latestStatus, receivedCount, submitCount>>

\* page.tsx:453-471, 559-568: fetch rejects, the response is not ok or has
\* no body; catch and finally run.
FetchFails ==
    /\ pagePc = "fetching"
    /\ LeaveRequest
    /\ StatusFrame

\* page.tsx:508-536: a tool_call event is read from the stream.
ReceiveToolCall(event) ==
    /\ pagePc = "reading"
    /\ receivedCount < MaxStatusEvents
    /\ receivedCount' = receivedCount + 1
    /\ activeToolCalls' = UpdateStatus(activeToolCalls, event)
    /\ latestStatus' = [latestStatus EXCEPT ![<<event.serverId, event.toolName>>] = event]
    /\ UNCHANGED <<pagePc, submitCount>>
    /\ StatusFrame

\* page.tsx:538-553: a warning event or a piece of text is read.
ReceiveOther ==
    /\ pagePc = "reading"
    /\ receivedCount < MaxStatusEvents
    /\ receivedCount' = receivedCount + 1
    /\ UNCHANGED <<pagePc, activeToolCalls, latestStatus, submitCount>>
    /\ StatusFrame

\* page.tsx:500-506, 564-568: an error event is read; the handler returns
\* through the finally block.
ReceiveError ==
    /\ pagePc = "reading"
    /\ LeaveRequest
    /\ StatusFrame

\* page.tsx:480-481, 564-568: the stream ends.
StreamDone ==
    /\ pagePc = "reading"
    /\ LeaveRequest
    /\ StatusFrame

\* page.tsx:480, 559-568: reader.read() rejects; catch and finally run.
ReadFails ==
    /\ pagePc = "reading"
    /\ LeaveRequest
    /\ StatusFrame

StatusNext ==
    \/ Submit
    \/ FetchResponds
    \/ FetchFails
    \/ \E event \in StatusEvents : ReceiveToolCall(event)
    \/ ReceiveOther
    \/ ReceiveError
    \/ StreamDone
    \/ ReadFails

-----------------------------------------------------------------------------
(* callArxivTool (lib/mcp/types.ts) *)

\* types.ts: the length beyond which the fetched content is cut.
ContentLimit == 15000

ArxivToolNames == {"arxiv_search", "arxiv_fetch", "arxiv_other"}

\* The arguments of a call. An absent or empty query or url is "", a
\* property that is absent is "undefined".
ArxivArgSets ==
    [query : {"", "q"}, url : {"", "2509.06917"},
     includeContent : {"undefined", "true", "false"}]

\* The lengths of the text fetchArxivHtmlContent can extract.
ContentLengths == {0, 1, ContentLimit, ContentLimit + 1}

NoArxivResult ==
    [isError |-> FALSE, text |-> "none", metadata |-> FALSE, contentLength |-> 0,
     truncated |-> FALSE, note |-> FALSE]

\* A result whose text is a fixed or formatted message.
ArxivMessage(text, isError) ==
    [isError |-> isError, text |-> text, metadata |-> FALSE, contentLength |-> 0,
     truncated |-> FALSE, note |-> FALSE]

\* types.ts:610-635: the result of arxiv_fetch, the paper's entry
\* followed by the content (cut at ContentLimit) or by the note.
PaperResult(length, note) ==
    [isError |-> FALSE, text |-> "paper", metadata |-> TRUE,
     contentLength |-> IF length > ContentLimit THEN ContentLimit ELSE length,
     truncated |-> length > ContentLimit, note |-> note]

\* types.ts:589: args.includeContent !== false
IncludeContent(args) == args.includeContent # "false"

ArxivInit ==
    /\ arxivPc = "start"
    /\ arxivToolName \in ArxivToolNames
    /\ arxivArgs \in ArxivArgSets
    /\ arxivOutcome = "pending"
    /\ arxivResult = NoArxivResult
    /\ arxivTrace = <<>>

\* No call of callArxivTool is under way.
ArxivRest ==
    /\ arxivPc = "done"
    /\ arxivToolName = "arxiv_other"
    /\ arxivArgs = [query |-> "", url |-> "", includeContent |-> "undefined"]
    /\ arxivOutcome = "returned"
    /\ arxivResult = ArxivMessage("unknown tool", TRUE)
    /\ arxivTrace = <<>>

\* A return statement of callArxivTool.
ArxivReturn(result) ==
    /\ arxivPc' = "done"
    /\ arxivOutcome' = "returned"
    /\ arxivResult' = result

\* types.ts:546-561, 586-598, 637-642: the call up to its first await.
CallArxivTool ==
    /\ arxivPc = "start"
    /\ IF arxivToolName = "arxiv_search"
       THEN IF arxivArgs.query = ""
            THEN ArxivReturn(ArxivMessage("no query", TRUE))
            ELSE /\ arxivPc' = "searching"
                 /\ UNCHANGED <<arxivOutcome, arxivResult>>
       ELSE IF arxivToolName = "arxiv_fetch"
            THEN IF arxivArgs.url = ""
                 THEN ArxivReturn(ArxivMessage("no url", TRUE))
                 ELSE /\ arxivPc' = "metadata"
                      /\ UNCHANGED <<arxivOutcome, arxivResult>>
            ELSE ArxivReturn(ArxivMessage("unknown tool", TRUE))
    /\ UNCHANGED <<arxivToolName, arxivArgs, arxivTrace>>
    /\ ArxivFrame

\* types.ts:561-584: searchArxiv resolves with its papers.
SearchAnswers(papers) ==
    /\ arxivPc = "searching"
    /\ arxivTrace' = Append(arxivTrace, "search ok")
    /\ IF papers = 0
       THEN ArxivReturn(ArxivMessage("nothing found", FALSE))
       ELSE ArxivReturn(ArxivMessage("search results", FALSE))
    /\ UNCHANGED <<arxivToolName, arxivArgs>>
    /\ ArxivFrame

\* types.ts:405-416, 561, 643-650: searchArxiv rejects (fetch fails or
\* the API answers not ok); the outer catch returns the failure.
SearchFails ==
    /\ arxivPc = "searching"
    /\ arxivTrace' = Append(arxivTrace, "search failed")
    /\ ArxivReturn(ArxivMessage("call failed", TRUE))
    /\ UNCHANGED <<arxivToolName, arxivArgs>>
    /\ ArxivFrame

\* types.ts:598-614, 632-635: getArxivPaper resolves, with the paper
\* or with null.
MetadataAnswers(found) ==
    /\ arxivPc = "metadata"
    /\ arxivTrace' = Append(arxivTrace, IF found THEN "metadata ok" ELSE "metadata null")
    /\ IF ~found
       THEN ArxivReturn(ArxivMessage("paper not found", TRUE))
       ELSE IF IncludeContent(arxivArgs)
            THEN /\ arxivPc' = "content"
                 /\ arxivResult' = PaperResult(0, FALSE)
                 /\ UNCHANGED arxivOutcome
            ELSE ArxivReturn(PaperResult(0, FALSE))
    /\ UNCHANGED <<arxivToolName, arxivArgs>>
    /\ ArxivFrame

\* types.ts:434-442, 598, 643-650: getArxivPaper rejects; the outer
\* catch returns the failure.
MetadataFails ==
    /\ arxivPc = "metadata"
    /\ arxivTrace' = Append(arxivTrace, "metadata failed")
    /\ ArxivReturn(ArxivMessage("call failed", TRUE))
    /\ UNCHANGED <<arxivToolName, arxivArgs>>
    /\ ArxivFrame

\* types.ts:615-627, 632-635: fetchArxivHtmlContent resolves with a
\* text of the given length.
ContentAnswers(length) ==
    /\ arxivPc = "content"
    /\ arxivTrace' = Append(arxivTrace, "content ok")
    /\ ArxivReturn(PaperResult(length, FALSE))
    /\ UNCHANGED <<arxivToolName, arxivArgs>>
    /\ ArxivFrame

\* Mutant: the content failure is left to the outer catch.
ContentFailsWholeCall ==
    /\ arxivPc = "content"
    /\ arxivTrace' = Append(arxivTrace, "content failed")
    /\ ArxivReturn(ArxivMessage("call failed", TRUE))
    /\ UNCHANGED <<arxivToolName, arxivArgs>>
    /\ ArxivFrame

\* types.ts:457-466, 628-635: fetchArxivHtmlContent rejects; the inner
\* catch appends the note to the paper's entry.
ContentFails ==
    /\ arxivPc = "content"
    /\ arxivTrace' = Append(arxivTrace, "content failed")
    /\ ArxivReturn(PaperResult(0, TRUE))
    /\ UNCHANGED <<arxivToolName, arxivArgs>>
    /\ ArxivFrame

ArxivNext ==
    \/ CallArxivTool
    \/ \E papers \in 0..2 : SearchAnswers(papers)
    \/ SearchFails
    \/ \E found \in BOOLEAN : MetadataAnswers(found)
    \/ MetadataFails
    \/ \E length \in ContentLengths : ContentAnswers(length)
    \/ ContentFails

-----------------------------------------------------------------------------
(* POST /api/mcp/connect (app/api/mcp/connect/route.ts) *)

MaxConnects == 3

\* The serverId values of a request body; the empty one stands for a missing id.
ConnectIds == ServerIds \cup {EmptyStr}

NoResponse == [status |-> 0, connected |-> FALSE, tools |-> <<>>]

\* connect/route.ts:20-23, 29-32, 67-70, 82-85: an error response.
ErrorResponse(status) == [status |-> status, connected |-> FALSE, tools |-> <<>>]

\* connect/route.ts:37-42, 77-82: the response of a connected server.
ConnectedResponse(toolList) == [status |-> 200, connected |-> TRUE, tools |-> toolList]

ConnectInit ==
    /\ connectPc = "idle"
    /\ connectServerId = EmptyStr
    /\ connectResponse = NoResponse
    /\ clientCache = <<>>
    /\ clientTouched = FALSE
    /\ connectCount = 0

ConnectRest == ConnectInit

\* connect/route.ts:15-17: a request arrives and its body is read.
ReceiveConnect(serverId) ==
    /\ connectPc = "idle"
    /\ connectCount < MaxConnects
    /\ connectCount' = connectCount + 1
    /\ connectServerId' = serverId
    /\ connectResponse' = NoResponse
    /\ clientTouched' = FALSE
    /\ connectPc' = "handling"
    /\ UNCHANGED clientCache
    /\ ConnectFrame

\* The handler answers.
Respond(resp) ==
    /\ connectResponse' = resp
    /\ connectPc' = "idle"

\* connect/route.ts:19-53: the handler up to its answer or to the await of
\* client.initialize(): the missing id, the registry lookup, the arXiv branch,
\* the cache lookup and the construction of a client.
HandleConnect ==
    /\ connectPc = "handling"
    /\ IF connectServerId = EmptyStr
       THEN Respond(ErrorResponse(400)) /\ UNCHANGED clientTouched
       ELSE IF connectServerId \notin Registry
       THEN Respond(ErrorResponse(404)) /\ UNCHANGED clientTouched
       ELSE IF connectServerId = ArxivId
       THEN Respond(ConnectedResponse(ARXIV_TOOLS)) /\ UNCHANGED clientTouched
       ELSE IF connectServerId \in DOMAIN clientCache
       THEN /\ Respond(ConnectedResponse(clientCache[connectServerId]))
            /\ UNCHANGED clientTouched
       ELSE /\ clientTouched' = TRUE
            /\ connectPc' = "initializing"
            /\ UNCHANGED connectResponse
    /\ UNCHANGED <<connectServerId, clientCache, connectCount>>
    /\ ConnectFrame

\* connect/route.ts:52-54, 73-82: initialize() resolves; the client is cached
\* and its tools are answered.
ConnectInitialized(toolList) ==
    /\ connectPc = "initializing"
    /\ clientCache' = MapSet(clientCache, connectServerId, toolList)
    /\ Respond(ConnectedResponse(toolList))
    /\ UNCHANGED <<connectServerId, clientTouched, connectCount>>
    /\ ConnectFrame

\* connect/route.ts:55-70: initialize() rejects; the answer is a 502.
ConnectInitializeFails ==
    /\ connectPc = "initializing"
    /\ Respond(ErrorResponse(502))
    /\ UNCHANGED <<connectServerId, clientCache, clientTouched, connectCount>>
    /\ ConnectFrame

ConnectNext ==
    \/ \E serverId \in ConnectIds : ReceiveConnect(serverId)
    \/ HandleConnect
    \/ \E toolList \in ToolLists : ConnectInitialized(toolList)
    \/ ConnectInitializeFails

-----------------------------------------------------------------------------
(* The sidebar's server state (SidebarContext.tsx) and the chat page's submit *)

MaxToggles == 3

\* SidebarContext.tsx:34-39: the state a server starts in, and the one
\* disconnectMCPServer (155-162) puts it in.
Disconnected == [isConnected |-> FALSE, isConnecting |-> FALSE, tools |-> <<>>]

NoSubmit == [ids |-> {}, enabled |-> {}, connected |-> {}]

SidebarInit ==
    /\ mcpServers = [s \in Registry |-> Disconnected]
    /\ sidebarEnabled = {}
    /\ connectionAttempts = {}
    /\ connecting = {}
    /\ effectPending = FALSE
    /\ toggleCount = 0
    /\ lastSubmit = NoSubmit

SidebarRest == SidebarInit

\* SidebarContext.tsx:73-83: toggleMCPServer.
ToggleMCPServer(s) ==
    /\ toggleCount < MaxToggles
    /\ toggleCount' = toggleCount + 1
    /\ sidebarEnabled' = IF s \in sidebarEnabled
                         THEN sidebarEnabled \ {s}
                         ELSE sidebarEnabled \cup {s}
    /\ effectPending' = TRUE
    /\ UNCHANGED <<mcpServers, connectionAttempts, connecting, lastSubmit>>
    /\ SidebarFrame

\* SidebarContext.tsx:173-176: the effect's first branch.
ShouldConnect(s) ==
    /\ s \in sidebarEnabled
    /\ ~mcpServers[s].isConnected
    /\ ~mcpServers[s].isConnecting
    /\ s \notin connectionAttempts

\* Mutant: the effect disconnects a disabled server only while it is connecting.
ShouldDisconnectConnecting(s) ==
    /\ s \notin sidebarEnabled
    /\ mcpServers[s].isConnecting

\* SidebarContext.tsx:177-180: the effect's second branch.
ShouldDisconnect(s) ==
    /\ s \notin sidebarEnabled
    /\ mcpServers[s].isConnected

\* SidebarContext.tsx:166-188 with 111-118 and 155-162: one run of the
\* auto-connect effect over all servers.
RunEffect ==
    /\ effectPending
    /\ mcpServers' =
          [s \in Registry |->
              IF ShouldConnect(s) THEN [mcpServers[s] EXCEPT !.isConnecting = TRUE]
              ELSE IF ShouldDisconnect(s) THEN Disconnected
              ELSE mcpServers[s]]
    /\ connectionAttempts' =
          (connectionAttempts \cup {s \in Registry : ShouldConnect(s)})
              \ {s \in Registry : s \notin sidebarEnabled}
    /\ connecting' = connecting \cup {s \in Registry : ShouldConnect(s)}
    /\ effectPending' = (mcpServers' # mcpServers)
    /\ UNCHANGED <<sidebarEnabled, toggleCount, lastSubmit>>
    /\ SidebarFrame

\* SidebarContext.tsx:133-145: the connect request is answered with tools.
ConnectSucceeds(s, toolList) ==
    /\ s \in connecting
    /\ connecting' = connecting \ {s}
    /\ mcpServers' = [mcpServers EXCEPT ![s] =
                         [isConnected |-> TRUE, isConnecting |-> FALSE, tools |-> toolList]]
    /\ effectPending' = TRUE
    /\ UNCHANGED <<sidebarEnabled, connectionAttempts, toggleCount, lastSubmit>>
    /\ SidebarFrame

\* SidebarContext.tsx:128-131, 146-152: the connect request fails.
ConnectFails(s) ==
    /\ s \in connecting
    /\ connecting' = connecting \ {s}
    /\ mcpServers' = [mcpServers EXCEPT ![s].isConnected = FALSE,
                                        ![s].isConnecting = FALSE]
    /\ effectPending' = TRUE
    /\ UNCHANGED <<sidebarEnabled, connectionAttempts, toggleCount, lastSubmit>>
    /\ SidebarFrame

\* The fetch of /api/mcp/connect for s settles.
ConnectSettles(s) ==
    \/ \E toolList \in ToolLists : ConnectSucceeds(s, toolList)
    \/ ConnectFails(s)

\* page.tsx:437-440: the ids handleSubmit sends as enabledMCPServers.
connectedMCPServerIds ==
    {s \in Registry : mcpServers[s].isConnected /\ s \in sidebarEnabled}

\* page.tsx:366-459: handleSubmit sends a request.
SubmitChat ==
    /\ lastSubmit' = [ids |-> connectedMCPServerIds, enabled |-> sidebarEnabled,
                      connected |-> {s \in Registry : mcpServers[s].isConnected}]
    /\ UNCHANGED <<mcpServers, sidebarEnabled, connectionAttempts, connecting,
                   effectPending, toggleCount>>
    /\ SidebarFrame

SidebarNext ==
    \/ \E s \in Registry : ToggleMCPServer(s)
    \/ RunEffect
    \/ \E s \in Registry : ConnectSettles(s)
    \/ SubmitChat

-----------------------------------------------------------------------------
(* Specifications *)

\* One request through the tool iteration loop.
Init == LoopInit /\ ClientInit /\ CodecRest /\ NameRest /\ DiscoveryRest
        /\ RaceRest /\ StatusRest /\ ArxivRest /\ ConnectRest /\ SidebarRest

Next == LoopNext

Spec == Init /\ [][Next]_vars

\* One MCPClient object used by its callers.
ClientSpecInit == LoopInit /\ hasToken /\ ClientInit /\ CodecRest /\ NameRest /\ DiscoveryRest
        /\ RaceRest /\ StatusRest /\ ArxivRest /\ ConnectRest /\ SidebarRest

ClientSpec == ClientSpecInit /\ [][ClientNext]_vars

\* One JSON-RPC response, delivered to sendMCPRequest in both framings.
CodecSpecInit == LoopInit /\ hasToken /\ ClientInit /\ CodecInit /\ NameRest /\ DiscoveryRest
        /\ RaceRest /\ StatusRest /\ ArxivRest /\ ConnectRest /\ SidebarRest

CodecSpec == CodecSpecInit /\ [][CodecNext]_vars

\* One text/event-stream body of any shape, parsed by parseSSEResponse.
BodySpecInit == LoopInit /\ hasToken /\ ClientInit /\ BodyInit /\ NameRest /\ DiscoveryRest
        /\ RaceRest /\ StatusRest /\ ArxivRest /\ ConnectRest /\ SidebarRest

BodySpec == BodySpecInit /\ [][BodyNext]_vars

\* One server id and tool name, namespaced and parsed back.
NameSpecInit == LoopInit /\ hasToken /\ ClientInit /\ CodecRest /\ NameInit /\ DiscoveryRest
        /\ RaceRest /\ StatusRest /\ ArxivRest /\ ConnectRest /\ SidebarRest

NameSpec == NameSpecInit /\ [][NameNext]_vars

\* One request for which no server is enabled.
PlainSpecInit == LoopInit /\ ClientInit /\ CodecRest /\ NameRest /\ DiscoveryNone
        /\ RaceRest /\ StatusRest /\ ArxivRest /\ ConnectRest /\ SidebarRest

PlainSpec == PlainSpecInit /\ [][PlainNext]_vars

\* The message assembly of one request, for any history.
HistorySpecInit == HistoryInit /\ ClientInit /\ CodecRest /\ NameRest /\ DiscoveryRest
        /\ RaceRest /\ StatusRest /\ ArxivRest /\ ConnectRest /\ SidebarRest

HistorySpec == HistorySpecInit /\ [][HistoryNext]_vars

\* One dispatched tool call and every way it can end.
ToolCallSpecInit ==
    AwaitingFirstCall /\ ClientInit /\ CodecRest /\ NameRest /\ DiscoveryRest
        /\ RaceRest /\ StatusRest /\ ArxivRest /\ ConnectRest /\ SidebarRest

ToolCallSpec == ToolCallSpecInit /\ [][ToolCallNext]_vars

\* The tool discovery of one request, for any list of enabled servers.
DiscoverySpecInit ==
    LoopInit /\ hasToken /\ ClientInit /\ CodecRest /\ NameRest /\ DiscoveryInit
        /\ RaceRest /\ StatusRest /\ ArxivRest /\ ConnectRest /\ SidebarRest

DiscoverySpec == DiscoverySpecInit /\ [][DiscoveryNext]_vars

\* Requests that enable the same server id, interleaved at their awaits.
RaceSpecInit ==
    LoopInit /\ hasToken /\ ClientInit /\ CodecRest /\ NameRest /\ DiscoveryRest
        /\ RaceInit /\ StatusRest /\ ArxivRest /\ ConnectRest /\ SidebarRest

RaceSpec == RaceSpecInit /\ [][RaceNext]_vars

\* One request whose caller has cancelled the output stream.
CancelSpecInit ==
    (CancelledWhileRequesting \/ CancelledWhileCalling)
        /\ ClientInit /\ CodecRest /\ NameRest /\ DiscoveryRest /\ RaceRest /\ StatusRest
        /\ ArxivRest /\ ConnectRest /\ SidebarRest

CancelSpec == CancelSpecInit /\ [][CancelledNext]_vars

\* The chat page through successive requests.
StatusSpecInit ==
    LoopInit /\ hasToken /\ ClientInit /\ CodecRest /\ NameRest /\ DiscoveryRest
        /\ RaceRest /\ StatusInit /\ ArxivRest /\ ConnectRest /\ SidebarRest

StatusSpec == StatusSpecInit /\ [][StatusNext]_vars

\* One call of callArxivTool, for any tool name and arguments.
ArxivSpecInit ==
    LoopInit /\ hasToken /\ ClientInit /\ CodecRest /\ NameRest /\ DiscoveryRest
        /\ RaceRest /\ StatusRest /\ ArxivInit /\ ConnectRest /\ SidebarRest

ArxivSpec == ArxivSpecInit /\ [][ArxivNext]_vars

\* The tool-call deltas of one round, in any order.
DeltaSpecInit ==
    ReadingFirstStream /\ ClientInit /\ CodecRest /\ NameRest /\ DiscoveryRest
        /\ RaceRest /\ StatusRest /\ ArxivRest /\ ConnectRest /\ SidebarRest

DeltaSpec == DeltaSpecInit /\ [][DeltaNext]_vars

\* One resolved tool call whose argument string is not valid JSON.
DispatchSpecInit ==
    BeforeFirstCall /\ ClientInit /\ CodecRest /\ NameRest /\ DiscoveryRest
        /\ RaceRest /\ StatusRest /\ ArxivRest /\ ConnectRest /\ SidebarRest

DispatchSpec == DispatchSpecInit /\ [][DispatchNext]_vars

\* Successive connect requests, for any server id.
ConnectSpecInit ==
    LoopInit /\ hasToken /\ ClientInit /\ CodecRest /\ NameRest /\ DiscoveryRest
        /\ RaceRest /\ StatusRest /\ ArxivRest /\ ConnectInit /\ SidebarRest

ConnectSpec == ConnectSpecInit /\ [][ConnectNext]_vars

\* The sidebar under toggles, connect responses and submits. React runs a
\* pending effect, and every fetch settles.
SidebarSpecInit ==
    LoopInit /\ hasToken /\ ClientInit /\ CodecRest /\ NameRest /\ DiscoveryRest
        /\ RaceRest /\ StatusRest /\ ArxivRest /\ ConnectRest /\ SidebarInit

SidebarSpec ==
    /\ SidebarSpecInit
    /\ [][SidebarNext]_vars
    /\ WF_vars(RunEffect)
    /\ \A s \in Registry : WF_vars(ConnectSettles(s))

-----------------------------------------------------------------------------
(* Properties of the tool iteration loop *)

Last(seq) == seq[Len(seq)]

IsPrefix(a, b) == Len(a) <= Len(b) /\ SubSeq(b, 1, Len(a)) = a

CallIds(calls) == {calls[k].id : k \in 1..Len(calls)}

WarningEmitted == \E i \in 1..Len(events) : events[i].type = "warning"

\* The assistant messages this request appended (the history's carry no calls).
RoundsWithToolCalls ==
    Cardinality({i \in 1..Len(conversationMessages) :
                    /\ conversationMessages[i].role = "assistant"
                    /\ Len(conversationMessages[i].tool_calls) > 0})

\* C1: the loop issues at most 10 chat-completion requests, and a request that
\* closed normally after the model asked for tools in every round has issued
\* exactly 10 of them and ended its stream with the warning event.
C1_RoundCap ==
    /\ requestCount <= MAX_TOOL_ITERATIONS
    /\ requestCount = toolIterations
    /\ (pc = "closed" /\ RoundsWithToolCalls = requestCount)
         => /\ requestCount = MAX_TOOL_ITERATIONS
            /\ Len(events) > 0
            /\ Last(events) = WarningEvent

C1_Witness ==
    /\ pc = "closed"
    /\ RoundsWithToolCalls = MAX_TOOL_ITERATIONS
    /\ requestCount = MAX_TOOL_ITERATIONS
    /\ Last(events) = WarningEvent

\* C2: when the stream closes, a warning event has been emitted exactly when
\* the loop left through the round cap with the last round still requesting
\* tools; a loop left because a round produced no tool call emits none.
C2_WarningOnlyOnCap ==
    pc = "closed" =>
        (WarningEmitted <=>
            (toolIterations = MAX_TOOL_ITERATIONS /\ Len(toolCalls) > 0))

\* C3: every tool message's tool_call_id is in the tool-call list of the most
\* recent assistant message before it (an assistant message with no other
\* assistant message in between).
C3_ToolMessageFollowsItsAssistant ==
    \A i \in 1..Len(conversationMessages) :
        conversationMessages[i].role = "tool" =>
            \E j \in 1..(i - 1) :
                /\ conversationMessages[j].role = "assistant"
                /\ \A k \in (j + 1)..(i - 1) : conversationMessages[k].role # "assistant"
                /\ conversationMessages[i].tool_call_id
                     \in CallIds(conversationMessages[j].tool_calls)

C3_Witness ==
    \E i \in 2..Len(conversationMessages) :
        /\ conversationMessages[i].role = "tool"
        /\ conversationMessages[i - 1].role = "tool"
        /\ conversationMessages[i].tool_call_id # conversationMessages[i - 1].tool_call_id

StatusEventsOf(id) ==
    SelectSeq(events, LAMBDA e : e.type = "tool_call" /\ e.call = id)

DispatchedCalls ==
    {events[i].call : i \in {k \in 1..Len(events) : events[k].type = "tool_call"}}

TerminalStatus == {"completed", "error"}

\* C4: the status events of a dispatched call are `running`, then at most one
\* terminal event; only a call whose callTool is still pending, or whose
\* request was cut off by a cancelled stream, has no terminal event yet.
C4_RunningThenOneTerminal ==
    LET dispatched == DispatchedCalls
    IN  /\ \A id \in dispatched :
              LET es == StatusEventsOf(id)
              IN  /\ es[1].status = "running"
                  /\ Len(es) <= 2
                  /\ Len(es) = 2 => es[2].status \in TerminalStatus
                  /\ Len(es) = 1 => \/ pc = "calling" /\ inFlight.id = id
                                    \/ cancelled /\ pc = "broken"
        /\ \A i \in 1..Len(conversationMessages) :
              (/\ conversationMessages[i].role = "tool"
               /\ conversationMessages[i].tool_call_id \in dispatched)
                  => Len(StatusEventsOf(conversationMessages[i].tool_call_id)) = 2

\* A call whose result could not be converted to text has ended with `error`.
C4_Witness ==
    \E id \in DispatchedCalls :
        /\ Len(StatusEventsOf(id)) = 2
        /\ StatusEventsOf(id)[2].status = "error"
        /\ StatusEventsOf(id)[2].text = <<"TypeError">>

ToolEvents == SelectSeq(events, LAMBDA e : e.type = "tool_call")

ToolMessages == SelectSeq(conversationMessages, LAMBDA m : m.role = "tool")

\* C5: tool calls run one at a time in the order their ids were opened in the
\* stream (ids are handed out in opening order): the status event after a
\* `running` event is the terminal event of the same call, a `running` event
\* follows the terminal event of a call opened earlier, so that only the
\* latest dispatched call can be in flight; the tool messages are appended in
\* opening order too.
C5_SequentialInOpeningOrder ==
    LET te == ToolEvents
        tm == ToolMessages
    IN  /\ \A i \in 1..(Len(te) - 1) :
              /\ te[i].call <= te[i + 1].call
              /\ te[i].status = "running"
                    => /\ te[i + 1].call = te[i].call
                       /\ te[i + 1].status \in TerminalStatus
              /\ te[i + 1].status = "running"
                    => /\ te[i].call < te[i + 1].call
                       /\ te[i].status \in TerminalStatus
        /\ (Len(te) > 0 /\ Last(te).status = "running")
              => \/ pc = "calling" /\ inFlight.id = Last(te).call
                 \/ cancelled /\ pc = "broken"
        /\ \A i \in 1..(Len(tm) - 1) : tm[i].tool_call_id < tm[i + 1].tool_call_id

\* Two calls of one round have both been dispatched.
C5_Witness ==
    \E i \in 1..Len(conversationMessages) :
        /\ Len(conversationMessages[i].tool_calls) = 2
        /\ CallIds(conversationMessages[i].tool_calls) \subseteq DispatchedCalls
        /\ \A id \in CallIds(conversationMessages[i].tool_calls) :
              Len(StatusEventsOf(id)) = 2

\* The messages a round appends: the assistant message, then one tool message
\* per tool call of that message, in the order of its list.
IsRoundSuffix(suffix) ==
    /\ Len(suffix) >= 2
    /\ suffix[1].role = "assistant"
    /\ Len(suffix) = 1 + Len(suffix[1].tool_calls)
    /\ \A k \in 1..Len(suffix[1].tool_calls) :
          /\ suffix[k + 1].role = "tool"
          /\ suffix[k + 1].tool_call_id = suffix[1].tool_calls[k].id

\* C6: when the request of round N+1 is issued, the list it carries is the
\* list round N carried, extended by round N's assistant message and one tool
\* message for each of its tool calls.
C6_NextRoundAfterAllResults ==
    [][(requestCount' = requestCount + 1 /\ requestCount >= 1) =>
          /\ IsPrefix(lastSent, lastSent')
          /\ Len(lastSent') > Len(lastSent)
          /\ IsRoundSuffix(SubSeq(lastSent', Len(lastSent) + 1, Len(lastSent')))
          /\ lastSent' = conversationMessages]_vars

\* A later round has been issued after a round whose tool call failed.
C6_Witness ==
    /\ pc = "requesting"
    /\ requestCount >= 2
    /\ \E i \in 1..Len(lastSent) :
          /\ lastSent[i].role = "tool"
          /\ lastSent[i].content = <<"Error calling tool: ", "MCP request failed">>

-----------------------------------------------------------------------------
(* Properties of MCPClient *)

\* C7: when initialize(), called on an uninitialized client that no other
\* caller writes meanwhile, has just failed, the client is still
\* uninitialized and its tool cache is what it was.
C7_FailedInitializeLeavesUninitialized ==
    (/\ lastEvent.method = "initialize"
     /\ lastEvent.outcome = "failed"
     /\ ~lastEvent.before.initialized
     /\ lastEvent.clean)
        => /\ ~initialized
           /\ tools = lastEvent.before.tools

\* C8: the flag goes from true to false only in a step of disconnect(), and
\* the state right after a disconnect() is uninitialized with an empty cache.
C8_OnlyDisconnectUninitializes ==
    [][/\ (initialized /\ ~initialized') => lastEvent'.method = "disconnect"
       /\ (lastEvent'.method = "disconnect" /\ opCount' = opCount + 1)
             => (~initialized' /\ tools' = <<>>)]_vars

\* An initialized client with cached tools has been disconnected.
C8_Witness ==
    /\ lastEvent.method = "disconnect"
    /\ lastEvent.before.initialized
    /\ lastEvent.before.tools # <<>>
    /\ ~initialized
    /\ tools = <<>>

\* C9: a step of getTools() sends no request and leaves the flag, the cache
\* and every pending method as they were, and when no step of listTools,
\* initialize or disconnect was taken since the previous getTools() it
\* returns what that one returned.
C9_GetToolsIsPure ==
    [][(lastEvent'.method = "getTools" /\ opCount' = opCount + 1)
          => /\ requestIdCounter' = requestIdCounter
             /\ initialized' = initialized
             /\ tools' = tools
             /\ pending' = pending
             /\ gotFresh => lastGot' = lastGot]_vars

\* getTools() has been called twice in a row on a populated cache.
C9_Witness ==
    /\ lastEvent.method = "getTools"
    /\ lastEvent.outcome = "again"
    /\ lastGot # <<>>
    /\ lastGot = tools

-----------------------------------------------------------------------------
(* Properties of the codec *)

ValidSuccess(r) == r.result # Undefined /\ r.error = Undefined

\* C10: once the response has been delivered in both framings, the two
\* outcomes agree on failure, and for a success response (a result member of
\* any value, no error member) both return that result.
C10_FramingTransparent ==
    (jsonOutcome # NotDelivered /\ sseOutcome # NotDelivered)
        => /\ jsonOutcome.failed = sseOutcome.failed
           /\ ValidSuccess(response)
                => /\ ~jsonOutcome.failed
                   /\ ~sseOutcome.failed
                   /\ jsonOutcome.value = response.result
                   /\ sseOutcome.value = response.result

-----------------------------------------------------------------------------
(* C11, C12: parseSSEResponse on bodies of several lines *)

IsData(line) == line.kind = "data" /\ line.json

ErrorLines == {i \in 1..Len(body) : IsData(body[i]) /\ body[i].object.error # Undefined}

ResultLines == {i \in 1..Len(body) : IsData(body[i]) /\ body[i].object.result # Undefined}

WellFormedBody == \A i \in 1..Len(body) : body[i].kind # "datanull"

\* C11: once an event-stream body with a `data: ` line carrying an `error`
\* member has been parsed, the request has failed with the protocol error of
\* such a line, wherever the line stands and whatever else it carries.
C11_ErrorLineFails ==
    (sseOutcome # NotDelivered /\ WellFormedBody /\ ErrorLines # {}) =>
        \E i \in ErrorLines : sseOutcome = McpError(body[i].object.error)

\* C12: once an event-stream body without an error line has been parsed, the
\* outcome is the result of the last `data: ` line carrying a `result` member,
\* or the empty-response error when no line carries one; other lines are
\* skipped.
C12_LastResultWins ==
    (sseOutcome # NotDelivered /\ WellFormedBody /\ ErrorLines = {}) =>
        IF ResultLines = {}
        THEN sseOutcome = Thrown("No valid response data found in SSE stream")
        ELSE LET last == CHOOSE i \in ResultLines : \A j \in ResultLines : j <= i
             IN  sseOutcome = Returned(body[last].object.result)

-----------------------------------------------------------------------------
(* C13: the round trip of a namespaced tool name *)

HasSeparator(str) == \E i \in 1..(Len(str) - 1) : str[i] = "_" /\ str[i + 1] = "_"

EndsWithUnderscore(str) == Len(str) > 0 /\ str[Len(str)] = "_"

RoundTrips ==
    parsedName = [ok |-> TRUE, serverId |-> namedServer, toolName |-> namedTool]

\* C13 as stated: for every server id without `__` and every tool name, parsing
\* the advertised function name gives back the server id and the tool name.
C13_RoundTrip ==
    (namePc = "parsed" /\ ~HasSeparator(namedServer)) => RoundTrips

\* C13 amended: the same for every server id that has no `__` and does not
\* end with `_`.
C13_RoundTripAmended ==
    (namePc = "parsed" /\ ~HasSeparator(namedServer) /\ ~EndsWithUnderscore(namedServer))
        => RoundTrips

\* A tool name that itself contains `__` has made the round trip.
C13_Witness ==
    /\ namePc = "parsed"
    /\ namedServer = <<"a">>
    /\ HasSeparator(namedTool)
    /\ RoundTrips

-----------------------------------------------------------------------------
(* C15, C16: tool discovery *)

Range(seq) == {seq[i] : i \in 1..Len(seq)}

ClientObtained(entry) == entry.how \in {"cached", "initialized"}

\* The function names of the servers whose client was obtained, in order.
RECURSIVE Contributed(_)
Contributed(entries) ==
    IF Len(entries) = 0 THEN <<>>
    ELSE (IF ClientObtained(Head(entries))
          THEN FunctionNames(Head(entries).serverId, Head(entries).tools)
          ELSE <<>>) \o Contributed(Tail(entries))

\* C15: a server whose initialize failed, or whose id the registry does not
\* know, does not stop the discovery: it contributes no tools and no cache
\* entry, the servers whose client was obtained are all advertised, and the
\* stream is handed out once every enabled server has been visited.
C15_FailedServerIsDropped ==
    /\ serverIdx = Len(discovered) + 1
    /\ discoveryPc = "streaming" => Len(discovered) = Len(enabledServerIds)
    /\ mcpTools = Contributed(discovered)
    /\ \A i \in 1..Len(discovered) :
          ~ClientObtained(discovered[i]) =>
              LET id == discovered[i].serverId
              IN  /\ id \in DOMAIN mcpClientCache =>
                        \E j \in 1..Len(discovered) :
                            /\ discovered[j].serverId = id
                            /\ discovered[j].how = "initialized"
                  /\ id \in DOMAIN mcpServerMap =>
                        \E j \in 1..Len(discovered) :
                            /\ discovered[j].serverId = id
                            /\ ClientObtained(discovered[j])

\* One server failed to initialize, another's tools are advertised, and the
\* stream has been handed out.
C15_Witness ==
    /\ discoveryPc = "streaming"
    /\ \E i \in 1..Len(discovered) : discovered[i].how = "failed"
    /\ Len(mcpTools) > 0
    /\ DOMAIN mcpClientCache = {discovered[i].serverId : i \in
                                   {k \in 1..Len(discovered) : ClientObtained(discovered[k])}}

\* C16: when the arXiv server id is enabled, the arXiv tools are advertised
\* and the id resolves for the tool calls of the request.
C16_ArxivIsResolved ==
    (discoveryPc = "streaming" /\ ArxivId \in Range(enabledServerIds)) =>
        /\ ArxivId \in DOMAIN mcpServerMap
        /\ Range(FunctionNames(ArxivId, ARXIV_TOOLS)) \subseteq Range(mcpTools)

-----------------------------------------------------------------------------
(* C14: tool calls that cannot be resolved *)

\* Positions of the assistant messages that carry tool calls.
CallRounds ==
    {p \in 1..Len(conversationMessages) :
        /\ conversationMessages[p].role = "assistant"
        /\ Len(conversationMessages[p].tool_calls) > 0}

\* The for loop has gone past call k of the assistant message at p.
Processed(p, k) == (\E q \in CallRounds : q > p) \/ k < toolIdx

Malformed(name) == ~HasSeparator(name)

Unresolved(name) ==
    /\ HasSeparator(name)
    /\ parseOpenAIFunctionName(name).serverId \notin DOMAIN mcpServerMap

ToolMessagesFor(id) ==
    {j \in 1..Len(conversationMessages) :
        /\ conversationMessages[j].role = "tool"
        /\ conversationMessages[j].tool_call_id = id}

EnvironmentFailures ==
    {<<"Missing GITHUB_TOKEN environment variable.">>, <<"request failed">>,
     <<"stream failed">>}

-----------------------------------------------------------------------------
(* C17, C19: how one tool call ends *)

CallEnded == pc = "tools" /\ lastReturned.id # 0

ErrorDescription(content) == Head(content) = "Error calling tool: "

\* C17: a call that threw, or that returned a result with isError = true,
\* ends with an `error` status event and an error tool message.
C17_FailureBecomesError ==
    (CallEnded /\ (lastReturned.threw \/ lastReturned.result.isError)) =>
        /\ Last(events).type = "tool_call"
        /\ Last(events).call = lastReturned.id
        /\ Last(events).status = "error"
        /\ Last(conversationMessages).role = "tool"
        /\ Last(conversationMessages).tool_call_id = lastReturned.id
        /\ ErrorDescription(Last(conversationMessages).content)

PartText(part) ==
    IF part.type = "text" THEN part.text
    ELSE IF part.type = "resource" THEN part.resourceText
    ELSE EmptyStr

\* The non-empty texts of the parts whose type is in `types`, with a blank
\* line between them.
RECURSIVE JoinedText(_, _)
JoinedText(parts, types) ==
    IF Len(parts) = 0 THEN EmptyStr
    ELSE LET first == IF Head(parts).type \in types THEN PartText(Head(parts))
                      ELSE EmptyStr
             rest == JoinedText(Tail(parts), types)
         IN  IF first = EmptyStr THEN rest
             ELSE IF rest = EmptyStr THEN first
             ELSE first \o <<"\n", "\n">> \o rest

FirstHundred(text) == [i \in 1..(IF Len(text) > 100 THEN 100 ELSE Len(text)) |-> text[i]]

Succeeded ==
    /\ CallEnded
    /\ ~lastReturned.threw
    /\ ~lastReturned.result.isNull
    /\ ~lastReturned.result.isError

\* What the claim says of a call that ended, `types` being the part types
\* whose text counts.
ResultIsReported(types) ==
    /\ Succeeded =>
          LET text == JoinedText(lastReturned.result.content, types)
          IN  /\ Last(conversationMessages) =
                    ToolMsg(lastReturned.id,
                            IF text = EmptyStr
                            THEN <<"Tool executed successfully with no output.">>
                            ELSE text)
              /\ Last(events).call = lastReturned.id
              /\ Last(events).status = "completed"
              /\ Last(events).text = FirstHundred(text)
    /\ (CallEnded /\ lastReturned.threw) =>
          /\ Last(conversationMessages).role = "tool"
          /\ Last(conversationMessages).tool_call_id = lastReturned.id
          /\ ErrorDescription(Last(conversationMessages).content)

\* C19 as stated: the tool message of a successful call holds the result's
\* text parts joined by blank lines, or the placeholder; the completed event
\* previews its first 100 characters; a call that threw gets an error
\* description.
C19_ResultText == ResultIsReported({"text"})

\* C19 amended: the same, the text being that of the text parts and the
\* embedded text of the resource parts.
C19_ResultTextAmended == ResultIsReported({"text", "resource"})

\* A successful call whose text, partly from a resource part, is longer than
\* the preview.
C19_Witness ==
    /\ Succeeded
    /\ \E i \in 1..Len(lastReturned.result.content) :
          /\ lastReturned.result.content[i].type = "resource"
          /\ lastReturned.result.content[i].resourceText # EmptyStr
    /\ Len(Last(conversationMessages).content) > 100
    /\ Len(Last(events).text) = 100

-----------------------------------------------------------------------------
(* C18: a request without servers that is answered with text *)

RECURSIVE ConcatText(_)
ConcatText(evs) ==
    IF Len(evs) = 0 THEN EmptyStr ELSE Head(evs).text \o ConcatText(Tail(evs))

\* The first round so far has carried no tool-call delta.
OnlyTextSoFar ==
    /\ CallRounds = {}
    /\ toolCalls = <<>>
    /\ currentToolCall = NoToolCall

-----------------------------------------------------------------------------
(* C20: an error that escapes the streaming phase *)

ErrorEvents == {i \in 1..Len(events) : events[i].type = "error"}

\* C20: an escaped error leaves exactly one error event, as the last event
\* and without a warning; no error event exists otherwise; events are never
\* retracted; and after the error no round or tool call is started.
C20_TerminalErrorEvent ==
    /\ [](/\ pc = "error" =>
                /\ ErrorEvents = {Len(events)}
                /\ Last(events).text \in EnvironmentFailures
                /\ ~WarningEmitted
          /\ pc # "error" => ErrorEvents = {})
    /\ [][/\ IsPrefix(events, events')
          /\ pc = "error" =>
                /\ pc' = "error"
                /\ events' = events
                /\ requestCount' = requestCount
                /\ inFlight' = inFlight]_vars

\* A request failed in a later round, after tool events had been emitted.
C20_Witness ==
    /\ pc = "error"
    /\ requestCount >= 2
    /\ Len(events) >= 3
    /\ events[1].type = "tool_call"
    /\ Last(events) = ErrorEvent(<<"request failed">>)

-----------------------------------------------------------------------------
(* C21: the message list of round 1 *)

NotSystem(m) == m.role # "system"

\* C21: the message list sent in round 1 is the fresh system prompt, then
\* the history in its order without its system-role entries, then the new
\* user message; the system prompt is its only system-role message.
C21_FirstRoundMessages ==
    requestCount = 1 =>
        LET kept == SelectSeq(messages, NotSystem)
            n == Len(lastSent)
        IN  /\ n = Len(kept) + 2
            /\ lastSent[1] = Msg("system", SystemPrompt)
            /\ lastSent[n] = Msg("user", UserPrompt)
            /\ \A i \in 1..Len(kept) :
                  /\ lastSent[i + 1].role = kept[i].role
                  /\ lastSent[i + 1].content = kept[i].content
            /\ \A i \in 2..n : lastSent[i].role # "system"

\* The first request was sent for a history with two system entries around
\* a user turn.
C21_Witness ==
    /\ requestCount = 1
    /\ Len(messages) = 3
    /\ messages[1].role = "system"
    /\ messages[2].role = "user"
    /\ messages[3].role = "system"
    /\ Len(lastSent) = 3

-----------------------------------------------------------------------------
(* Properties of concurrent requests for one server id *)

\* C22: however the requests enabling one uncached server id interleave, a
\* request that obtains a client obtains one that is initialized and has
\* fetched its tool list, the cache never holds a client that is not
\* initialized, and once a client was written the cache holds the one written
\* last.
C22_RacingRequests ==
    /\ \A r \in Requests :
          obtainedClient[r] # NoEntry =>
              /\ clients[obtainedClient[r]].initialized
              /\ clients[obtainedClient[r]].listed
    /\ cacheEntry # NoEntry =>
          /\ clients[cacheEntry].initialized
          /\ clients[cacheEntry].listed
    /\ cacheWrites # <<>> => cacheEntry = Last(cacheWrites)

\* Two requests both missed the empty cache, both initialized the server, and
\* the cache holds the client of the one that finished last.
C22_Witness ==
    /\ \A r \in Requests : handlerPc[r] = "done"
    /\ sawCached[1] = NoEntry /\ sawCached[2] = NoEntry
    /\ obtainedClient[1] = 1 /\ obtainedClient[2] = 2
    /\ Len(cacheWrites) >= 2
    /\ cacheWrites[1] = 2 /\ cacheWrites[2] = 1
    /\ cacheEntry = 1

\* The request's cache lookup found an initialized client.
FoundCached(r) == sawCached[r] # NoEntry

\* C23: a request whose lookup finds a cached initialized client sends neither
\* initialize nor tools/list, never writes the cache, and advertises the tool
\* list that client holds; a request constructs and initializes a client only
\* when its lookup found none.
C23_CachedClientReused ==
    \A r \in Requests :
        handlerPc[r] # "start" =>
            /\ FoundCached(r) =>
                  /\ sentRequests[r] = <<>>
                  /\ r \notin Range(cacheWrites)
                  /\ obtainedClient[r] = sawCached[r]
                  /\ advertisedTools[r] = clients[sawCached[r]].tools
                  /\ clients[r] = NewClient
            /\ sentRequests[r] # <<>> => ~FoundCached(r)

\* A request reused the client another request had just cached, with a
\* non-empty tool list.
C23_Witness ==
    \E r \in Requests :
        /\ handlerPc[r] = "done"
        /\ FoundCached(r)
        /\ sawCached[r] # 0
        /\ advertisedTools[r] = <<"t", "u">>
        /\ cacheEntry = sawCached[r]

-----------------------------------------------------------------------------
(* Properties of a cancelled request *)

\* C24: once the caller has cancelled the output stream, no further
\* chat-completion request is issued, no further tool call is dispatched, and
\* the result of a tool call in flight adds no event and no message.
C24_CancelStopsRequest ==
    [][cancelled =>
          /\ requestCount' = requestCount
          /\ inFlight = NoDispatch => inFlight' = NoDispatch
          /\ pc = "calling" =>
                /\ events' = events
                /\ conversationMessages' = conversationMessages]_vars

-----------------------------------------------------------------------------
(* Properties of the chat page's status list *)

-----------------------------------------------------------------------------
(* Properties of callArxivTool *)

\* C26: callArxivTool never throws, every call that ended returned a result;
\* an arxiv_fetch whose metadata fetch succeeded and whose content fetch failed
\* returns a non-error result with the paper's entry and the note; a failed
\* metadata fetch and an unknown tool name return a result with isError.
C26_ArxivFailuresAreResults ==
    /\ arxivOutcome # "threw"
    /\ arxivPc = "done" =>
          /\ arxivOutcome = "returned"
          /\ arxivResult # NoArxivResult
          /\ arxivTrace = <<"metadata ok", "content failed">> =>
                /\ ~arxivResult.isError
                /\ arxivResult.metadata
                /\ arxivResult.note
          /\ (/\ Len(arxivTrace) > 0
              /\ Last(arxivTrace) \in {"metadata failed", "metadata null"}) =>
                arxivResult.isError
          /\ arxivToolName \notin {"arxiv_search", "arxiv_fetch"} => arxivResult.isError
    /\ arxivResult.note => Last(arxivTrace) = "content failed"

\* An arxiv_fetch with content requested got the paper but not its content.
C26_Witness ==
    /\ arxivPc = "done"
    /\ arxivToolName = "arxiv_fetch"
    /\ arxivArgs.includeContent # "false"
    /\ arxivTrace = <<"metadata ok", "content failed">>
    /\ arxivResult = PaperResult(0, TRUE)

-----------------------------------------------------------------------------
(* Properties of the tool-call accumulation *)

\* The positions of the deltas that carried a call id.
Openers(deltas) == {i \in 1..Len(deltas) : deltas[i].id # 0}

\* The last delta belonging to the call opened at position i.
SegmentEnd(deltas, i) ==
    CHOOSE j \in i..Len(deltas) :
        /\ \A k \in (i + 1)..j : deltas[k].id = 0
        /\ j = Len(deltas) \/ deltas[j + 1].id # 0

RECURSIVE NameOf(_, _, _)
NameOf(deltas, i, j) ==
    IF i > j THEN EmptyStr ELSE deltas[i].name \o NameOf(deltas, i + 1, j)

RECURSIVE ArgumentsOf(_, _, _)
ArgumentsOf(deltas, i, j) ==
    IF i > j THEN EmptyStr ELSE deltas[i].arguments \o ArgumentsOf(deltas, i + 1, j)

\* The round's calls so far: the flushed ones and the one still open.
CallsSoFar ==
    IF pc = "stream" /\ currentToolCall # NoToolCall
    THEN Append(toolCalls, currentToolCall)
    ELSE toolCalls

\* C27: the round's tool calls are, in order, one per delta that carried a
\* call id; the name and the argument string of each are the concatenation of
\* the fragments of its opening delta and of the id-less deltas up to the next
\* id-carrying delta or the end; id-less deltas before the first call
\* contribute nothing.
C27_CallsFromDeltas ==
    LET calls == CallsSoFar
        opens == Openers(arrivedDeltas)
    IN  /\ Len(calls) = Cardinality(opens)
        /\ \A i \in opens :
              LET k == Cardinality({j \in opens : j <= i})
                  end == SegmentEnd(arrivedDeltas, i)
              IN  /\ calls[k].id = arrivedDeltas[i].id
                  /\ calls[k].name = NameOf(arrivedDeltas, i, end)
                  /\ calls[k].arguments = ArgumentsOf(arrivedDeltas, i, end)

\* An id-less delta came first, then a call was opened and continued, then a
\* second call was opened; the stream has ended.
C27_Witness ==
    /\ pc = "tools"
    /\ Len(arrivedDeltas) = 4
    /\ arrivedDeltas[1].id = 0 /\ arrivedDeltas[1].name # EmptyStr
    /\ arrivedDeltas[2].id # 0
    /\ arrivedDeltas[3].id = 0 /\ arrivedDeltas[3].arguments # EmptyStr
    /\ arrivedDeltas[4].id # 0
    /\ Len(toolCalls) = 2
    /\ toolCalls[1].arguments = arrivedDeltas[2].arguments \o arrivedDeltas[3].arguments

-----------------------------------------------------------------------------
(* Properties of a call whose arguments do not parse *)

\* C28: a resolved call whose argument string is not valid JSON is dispatched
\* with an empty argument object after its `running` event; when it has ended
\* the stream carries its `running` and its terminal event, the conversation
\* holds exactly one tool message for it, and the request has not ended in
\* error.
C28_InvalidArgsAreDispatched ==
    LET call == toolCalls[1]
    IN  ~JsonParse(call.arguments).ok =>
            /\ pc \notin {"error", "broken"}
            /\ (pc = "tools" /\ toolIdx = 1) =>
                  /\ events = <<>>
                  /\ ToolMessagesFor(call.id) = {}
            /\ pc = "calling" =>
                  /\ inFlight.id = call.id
                  /\ inFlight.args = {}
                  /\ Len(events) = 1
                  /\ events[1].call = call.id /\ events[1].status = "running"
                  /\ ToolMessagesFor(call.id) = {}
            /\ lastReturned.id = call.id =>
                  /\ Len(events) = 2
                  /\ events[1].call = call.id /\ events[1].status = "running"
                  /\ events[2].call = call.id
                  /\ events[2].status \in {"completed", "error"}
                  /\ Cardinality(ToolMessagesFor(call.id)) = 1

\* The call with the truncated argument string was executed and answered, and
\* the next round was issued.
C28_Witness ==
    /\ toolCalls[1].arguments = <<"{", "k">>
    /\ lastReturned.id = 1
    /\ ~lastReturned.threw
    /\ pc = "requesting"
    /\ requestCount = 2
    /\ events[2].status = "completed"

-----------------------------------------------------------------------------
(* Properties of the connect route *)

\* C29: a connect request for the arXiv server id is answered with
\* connected = true and the arXiv tool list, and constructs no client and
\* writes no cache entry.
C29_ArxivConnects ==
    (connectServerId = ArxivId /\ connectResponse # NoResponse) =>
        /\ connectResponse = ConnectedResponse(ARXIV_TOOLS)
        /\ ~clientTouched

-----------------------------------------------------------------------------
(* Properties of the sidebar *)

SettledOff(s) == ~mcpServers[s].isConnected /\ mcpServers[s].tools = <<>>

\* C30: a server that is disabled from some point on is, from some point on,
\* not connected and without tools; and every submit sends exactly the ids of
\* the servers that were enabled and connected when it was made.
C30_DisabledServerSettles ==
    /\ \A s \in Registry : (<>[](s \notin sidebarEnabled)) => <>[]SettledOff(s)
    /\ [](lastSubmit.ids = lastSubmit.enabled \cap lastSubmit.connected)

\* The connect response of a server arrived after the server was disabled:
\* it is connected, with tools, and not enabled; a submit made in this state
\* did not send its id.
C30_Witness ==
    \E s \in Registry :
        /\ s \notin sidebarEnabled
        /\ mcpServers[s].isConnected
        /\ mcpServers[s].tools # <<>>
        /\ s \in lastSubmit.connected
        /\ s \notin lastSubmit.ids

====
